---- MODULE Spec2Model ----
(***************************************************************************)
(* Message Dispatch Engine of sms-automation: the p-queue backed           *)
(* QueueService (queue.service.ts), the retry loop of processMessage with  *)
(* its media staging and its calls to the audit store, the artifact store  *)
(* and the notifier, the result construction of                            *)
(* OpenPhoneService.sendMessage, the error classifier isRetryableError,    *)
(* and the startup and shutdown sequences of index.ts.                     *)
(*                                                                         *)
(* A job that p-queue starts runs synchronously up to its first await; the *)
(* model takes that prefix (Stage, BeginAttempt) as steps of their own, so *)
(* it admits every interleaving of the program and some more.              *)
(***************************************************************************)
EXTENDS Integers, Sequences, FiniteSets, TLC

\* ------------------------------------------------------------------ bounds
\* number of messages submitted in one run
MaxMessages == 2
\* largest configured MAX_RETRIES explored
MaxRetriesBound == 6
\* Math.random() is drawn from {0/RandDen, ..., (RandDen-1)/RandDen}
RandDen == 3
\* largest number of attachments of a message
MaxMedia == 2
\* longest list of candidate selectors of a login step
MaxCandidates == 3

\* ------------------------------------------------------- program constants
DefaultMaxRetries == 3
MinDelay == 8000
MaxDelay == 20000
\* a queue built with room for two jobs at once
ConcurrencyTwo == 1 + 1
Concurrency == 1
BackoffBase == 1000
BackoffCap == 30000

MsgIds == 1..MaxMessages

\* values of config.queue.maxRetries explored with several messages
MaxRetriesValues == {0, 1, DefaultMaxRetries}

Min(a, b) == IF a < b THEN a ELSE b

RECURSIVE Pow2(_)
Pow2(n) == IF n <= 0 THEN 1 ELSE 2 * Pow2(n - 1)

\* ----------------------------------------------------------------- strings
\* JavaScript strings are modelled as tuples of one-character strings.
UpperAlpha == <<"A","B","C","D","E","F","G","H","I","J","K","L","M","N","O","P","Q","R","S","T","U","V","W","X","Y","Z">>
LowerAlpha == <<"a","b","c","d","e","f","g","h","i","j","k","l","m","n","o","p","q","r","s","t","u","v","w","x","y","z">>

LowerChar(c) ==
  IF \E i \in 1..Len(UpperAlpha) : UpperAlpha[i] = c
    THEN LowerAlpha[CHOOSE i \in 1..Len(UpperAlpha) : UpperAlpha[i] = c]
    ELSE c

\* String.prototype.toLowerCase
ToLowerCase(s) == [i \in 1..Len(s) |-> LowerChar(s[i])]

\* String.prototype.includes
Includes(s, sub) ==
  \E i \in 0..(Len(s) - Len(sub)) : \A j \in 1..Len(sub) : s[i + j] = sub[j]

\* MessageStatus
SENDING == "sending"
SENT == "sent"
FAILED == "failed"
RETRYING == "retrying"

UNEXPECTED_ERROR == <<"U","N","E","X","P","E","C","T","E","D","_","E","R","R","O","R">>
UNKNOWN_ERROR == <<"U","N","K","N","O","W","N","_","E","R","R","O","R">>
NoString == <<>>

\* the retryableMessages list of isRetryableError
retryableMessages ==
  << <<"t","i","m","e","o","u","t">>,
     <<"n","e","t","w","o","r","k">>,
     <<"E","C","O","N","N","R","E","S","E","T">>,
     <<"E","T","I","M","E","D","O","U","T">>,
     <<"E","N","O","T","F","O","U","N","D">>,
     <<"T","a","r","g","e","t"," ","c","l","o","s","e","d">>,
     <<"N","a","v","i","g","a","t","i","o","n"," ","t","i","m","e","o","u","t">> >>

\* a classifier whose list also holds the word 'error'
isRetryableErrorLoose(error) ==
  LET errorMessage == ToLowerCase(error.message)
  IN \/ Includes(errorMessage, <<"e","r","r","o","r">>)
     \/ \E i \in 1..Len(retryableMessages) :
          Includes(errorMessage, ToLowerCase(retryableMessages[i]))

\* isRetryableError(error): error.message lower-cased contains one of the
\* lower-cased retryableMessages
isRetryableError(error) ==
  \E errorMessage \in {ToLowerCase(error.message)} :
    \E i \in 1..Len(retryableMessages) :
      Includes(errorMessage, ToLowerCase(retryableMessages[i]))

\* ------------------------------------------------- errors of the UI driver
\* Errors the browser automation raises inside the delivery sequence, each
\* with the name and message the runtime gives it.
ErrTimeout ==
  [name |-> <<"T","i","m","e","o","u","t","E","r","r","o","r">>,
   message |-> <<"T","i","m","e","o","u","t"," ","3","0","0","0","0","m","s"," ","e","x","c","e","e","d","e","d",".">>]
ErrConnReset ==
  [name |-> <<"E","r","r","o","r">>,
   message |-> <<"r","e","a","d"," ","E","C","O","N","N","R","E","S","E","T">>]
ErrTargetClosed ==
  [name |-> <<"E","r","r","o","r">>,
   message |-> <<"T","a","r","g","e","t"," ","c","l","o","s","e","d">>]
ErrDns ==
  [name |-> <<"E","r","r","o","r">>,
   message |-> <<"g","e","t","a","d","d","r","i","n","f","o"," ","E","N","O","T","F","O","U","N","D">>]
ErrNoAttach ==
  [name |-> <<"E","r","r","o","r">>,
   message |-> <<"N","o"," ","a","t","t","a","c","h","m","e","n","t"," ","m","e","t","h","o","d"," ","a","v","a","i","l","a","b","l","e">>]
\* a thrown value that carries no name
ErrNameless ==
  [name |-> NoString,
   message |-> <<"o","o","p","s">>]
\* raised by sendMessage itself when verifyMessageSent returns false
ErrVerification ==
  [name |-> <<"E","r","r","o","r">>,
   message |-> <<"M","e","s","s","a","g","e"," ","s","e","n","d","i","n","g"," ","v","e","r","i","f","i","c","a","t","i","o","n"," ","f","a","i","l","e","d">>]

\* the error a step of the delivery sequence raises, by kind
StepError(kind) ==
  CASE kind = "timeout" -> ErrTimeout
    [] kind = "connreset" -> ErrConnReset
    [] kind = "targetclosed" -> ErrTargetClosed
    [] kind = "dns" -> ErrDns
    [] kind = "noattach" -> ErrNoAttach
    [] OTHER -> ErrNameless

\* network-class errors: timeout, connection reset / closed, DNS failure
NetworkErrors == {"timeout", "connreset", "targetclosed", "dns"}
StepErrors == NetworkErrors \cup {"noattach", "nameless"}

\* what the UI does during one attempt: every step works and no alert is
\* shown, an error/alert element is shown after the send, or a step raises
UiOutcomes(errors) ==
  {[kind |-> "clean"], [kind |-> "alert"]}
    \cup {[kind |-> e] : e \in errors}

\* no sendMessage call has returned in this processMessage call
NoResult ==
  [threw |-> FALSE, success |-> FALSE, status |-> "none",
   errorCode |-> NoString, error |-> NoString]

\* a sendMessage whose catch block rethrows
sendMessageRethrows(pageOpen, ui) ==
  IF ~pageOpen \/ ui.kind # "clean"
    THEN [threw |-> TRUE, success |-> FALSE, status |-> FAILED,
          errorCode |-> NoString, error |-> NoString]
    ELSE [threw |-> FALSE, success |-> TRUE, status |-> SENT,
          errorCode |-> NoString, error |-> NoString]

\* OpenPhoneService.sendMessage(phone, text, mediaFilePaths)
sendMessage(pageOpen, ui) ==
  IF ~pageOpen
    THEN [threw |-> TRUE, success |-> FALSE, status |-> FAILED,
          errorCode |-> NoString, error |-> NoString]
    ELSE IF ui.kind = "clean"
      THEN [threw |-> FALSE, success |-> TRUE, status |-> SENT,
            errorCode |-> NoString, error |-> NoString]
      ELSE LET error == IF ui.kind = "alert" THEN ErrVerification
                                            ELSE StepError(ui.kind)
           IN [threw |-> FALSE, success |-> FALSE, status |-> FAILED,
               errorCode |-> IF error.name # NoString THEN error.name
                                                      ELSE UNKNOWN_ERROR,
               error |-> error.message]

\* ------------------------------------------------ the delivery sequence
\* the text of an error/alert element of the remote console
AlertText == <<"I","n","v","a","l","i","d"," ","n","u","m","b","e","r">>

\* the calls to the browser inside the delivery sequence that can raise:
\* keyboard.press('Alt+N'), keyboard.type(phone), keyboard.type(text),
\* attachButton.click, setInputFiles, the evaluate of the synthesized drop,
\* the screenshot before Enter, keyboard.press('Enter'), the screenshot after
\* Enter, the screenshot of verifyMessageSent, errorElement.textContent
RaisePoints ==
  {"pressNew", "typePhone", "typeText", "clickAttach", "setInputFiles",
   "drop", "shotBefore", "pressEnter", "shotAfter", "shotVerify",
   "textContent"}

\* what the browser does during one sendMessage call: the call that raises
\* (or "none") and the kind of error it raises, which of the attach button,
\* the file input and the drop zone the composer has, and the text of the
\* error/alert element in the view after the send (NoString: no element);
\* shotError: the screenshot in the catch block of sendMessage works
Scenario(raise, err, button, input, zone, alert) ==
  [raise |-> raise, err |-> err, button |-> button, input |-> input,
   zone |-> zone, alert |-> alert, shotError |-> TRUE]

\* the scenario behind an outcome of UiOutcomes: nothing raises and no alert
\* is shown, an alert is shown, or the first call to the browser raises
Canonical(ui) ==
  IF ui.kind = "clean"
    THEN Scenario("none", "none", TRUE, TRUE, TRUE, NoString)
    ELSE IF ui.kind = "alert"
      THEN Scenario("none", "none", TRUE, TRUE, TRUE, AlertText)
      ELSE Scenario("pressNew", ui.kind, TRUE, TRUE, TRUE, NoString)

\* the scenarios of a run: those behind UiOutcomes, and, when the driver is
\* explored in detail, every raising call with every set of attach controls,
\* with and without a working error screenshot
Scenarios(errors, detail) ==
  {Canonical(ui) : ui \in UiOutcomes(errors)}
    \cup (IF detail
            THEN {[Scenario(raise, err, button, input, zone, alert)
                     EXCEPT !.shotError = shot] :
                    raise \in RaisePoints, err \in errors,
                    button \in BOOLEAN, input \in BOOLEAN, zone \in BOOLEAN,
                    alert \in {NoString, AlertText}, shot \in BOOLEAN}
            ELSE {})

\* the attachment step was not entered
NoAttach ==
  [tried |-> <<>>, attached |-> FALSE, raised |-> FALSE, kind |-> "none"]

\* an attachMediaFiles whose catch block logs the error and returns
attachMediaFilesSwallows(d) ==
  IF d.button /\ d.raise = "clickAttach"
    THEN [tried |-> <<"button">>, attached |-> FALSE, raised |-> FALSE,
          kind |-> "none"]
    ELSE IF d.input
      THEN [tried |-> <<"button", "input">>,
            attached |-> d.raise # "setInputFiles", raised |-> FALSE,
            kind |-> "none"]
      ELSE IF d.zone
        THEN [tried |-> <<"button", "input", "drop">>,
              attached |-> d.raise # "drop", raised |-> FALSE,
              kind |-> "none"]
        ELSE [tried |-> <<"button", "input", "drop">>, attached |-> FALSE,
              raised |-> FALSE, kind |-> "none"]

\* attachMediaFiles(filePaths): the attach button is looked for and clicked
\* when found; the file input is looked for and, when found, given the files;
\* only when no file input is found the drop zone is looked for and, when
\* found, given a synthesized drop per file; with neither, 'No attachment
\* method available' is thrown. Every error is rethrown.
attachMediaFiles(d) ==
  IF d.button /\ d.raise = "clickAttach"
    THEN [tried |-> <<"button">>, attached |-> FALSE, raised |-> TRUE,
          kind |-> d.err]
    ELSE IF d.input
      THEN [tried |-> <<"button", "input">>,
            attached |-> d.raise # "setInputFiles",
            raised |-> d.raise = "setInputFiles",
            kind |-> IF d.raise = "setInputFiles" THEN d.err ELSE "none"]
      ELSE IF d.zone
        THEN [tried |-> <<"button", "input", "drop">>,
              attached |-> d.raise # "drop",
              raised |-> d.raise = "drop",
              kind |-> IF d.raise = "drop" THEN d.err ELSE "none"]
        ELSE [tried |-> <<"button", "input", "drop">>, attached |-> FALSE,
              raised |-> TRUE, kind |-> "noattach"]

\* clickSendButton: screenshot, Enter, screenshot; every error is rethrown
clickSendButton(d) ==
  [issued |-> d.raise \notin {"shotBefore", "pressEnter"},
   raised |-> d.raise \in {"shotBefore", "pressEnter", "shotAfter"}]

\* a verifyMessageSent whose catch block reports a failure
verifyMessageSentStrict(d) ==
  IF d.raise = "shotVerify" THEN FALSE
  ELSE IF d.alert # NoString /\ d.raise # "textContent" THEN FALSE
  ELSE TRUE

\* verifyMessageSent: false when an error/alert element is found and its text
\* can be read; true when none is found, when reading the text raises (the
\* selector is skipped) and when the screenshot raises (the catch block
\* returns true)
verifyMessageSent(d) ==
  IF d.raise = "shotVerify" THEN TRUE
  ELSE IF d.alert # NoString /\ d.raise # "textContent" THEN FALSE
  ELSE TRUE

\* a call inside verifyMessageSent raised
verifyRaised(d) ==
  \/ d.raise = "shotVerify"
  \/ d.raise = "textContent" /\ d.alert # NoString

\* no sendMessage call has run its delivery sequence
NoRun ==
  [steps |-> <<>>, raisedIn |-> "none", issued |-> FALSE,
   attach |-> NoAttach, alert |-> NoString, ui |-> [kind |-> "none"],
   snapshot |-> "none"]

\* the try block of sendMessage in scenario d with n staged files: the steps
\* entered, the step a raise came from, whether Enter was pressed, what the
\* attachment step did, the alert element in the view at verification, the
\* outcome handed to the result construction, and what became of the error
\* screenshot of the catch block (its failure is logged and nothing more)
deliverySequence(d, n) ==
  LET a == IF n > 0 THEN attachMediaFiles(d) ELSE NoAttach
      c == clickSendButton(d)
      typed == <<"compose", "recipient", "body">>
      composed == IF n > 0 THEN typed \o <<"attach">> ELSE typed
      run ==
     IF d.raise = "pressNew"
       THEN [steps |-> <<"compose">>, raisedIn |-> "compose",
             issued |-> FALSE, attach |-> NoAttach, alert |-> NoString,
             ui |-> [kind |-> d.err]]
     ELSE IF d.raise = "typePhone"
       THEN [steps |-> <<"compose", "recipient">>, raisedIn |-> "recipient",
             issued |-> FALSE, attach |-> NoAttach, alert |-> NoString,
             ui |-> [kind |-> d.err]]
     ELSE IF d.raise = "typeText"
       THEN [steps |-> typed, raisedIn |-> "body",
             issued |-> FALSE, attach |-> NoAttach, alert |-> NoString,
             ui |-> [kind |-> d.err]]
     ELSE IF a.raised
       THEN [steps |-> composed, raisedIn |-> "attach",
             issued |-> FALSE, attach |-> a, alert |-> NoString,
             ui |-> [kind |-> a.kind]]
     ELSE IF c.raised
       THEN [steps |-> composed \o <<"send">>, raisedIn |-> "send",
             issued |-> c.issued, attach |-> a, alert |-> NoString,
             ui |-> [kind |-> d.err]]
     ELSE [steps |-> composed \o <<"send", "verify">>,
           raisedIn |-> IF verifyRaised(d) THEN "verify" ELSE "none",
           issued |-> TRUE, attach |-> a, alert |-> d.alert,
           ui |-> [kind |-> IF verifyMessageSent(d) THEN "clean"
                                                    ELSE "alert"]]
  IN [steps |-> run.steps, raisedIn |-> run.raisedIn, issued |-> run.issued,
      attach |-> run.attach, alert |-> run.alert, ui |-> run.ui,
      snapshot |-> IF run.ui.kind = "clean" THEN "none"
                   ELSE IF d.shotError THEN "taken" ELSE "failed"]

\* ------------------------------------------------------------------ timing
\* randomDelay(min, max) with Math.random() = u / RandDen
randomDelay(min, max, u) == ((u * (max - min + 1)) \div RandDen) + min

\* a backoff whose exponent counts the retries from 0
retryDelayFromZero(att) == Min(BackoffBase * Pow2(att - 1), BackoffCap)

\* Math.min(1000 * Math.pow(2, attempt), 30000)
retryDelay(att) == Min(BackoffBase * Pow2(att), BackoffCap)

\* a retry test that forgets the attempt ceiling
shouldRetryNoLimit(att, maxR, res) ==
  /\ res.errorCode # NoString
  /\ isRetryableError([message |-> res.errorCode, name |-> res.errorCode])

\* the retry test of processMessage on a failed result
shouldRetry(att, maxR, res) ==
  /\ att < maxR
  /\ res.errorCode # NoString
  /\ isRetryableError([message |-> res.errorCode, name |-> res.errorCode])

\* the loop test written with <= instead of <
loopGuardInclusive(att, maxR) == att <= maxR

\* while (attempt < config.queue.maxRetries)
loopGuard(att, maxR) == att < maxR

\* a catch block that retries while attempts remain
branchRetryThrown(res, att, maxR) ==
  IF res.threw THEN (IF att < maxR THEN "retry" ELSE "unexpected")
  ELSE IF res.success THEN "sent"
  ELSE IF shouldRetry(att, maxR, res) THEN "retry"
  ELSE "failed"

\* which branch of processMessage the outcome of an attempt takes
branch(res, att, maxR) ==
  IF res.threw THEN "unexpected"
  ELSE IF res.success THEN "sent"
  ELSE IF shouldRetry(att, maxR, res) THEN "retry"
  ELSE "failed"

\* --------------------------------------------------------- attachments
\* saveMediaFiles(mediaFiles, uniqueId): the files are written one by one in
\* order; when the write of file failAt throws (failAt = 0: none does), the
\* files before it are on disk and no path is returned
saveMediaFiles(n, failAt) ==
  [threw |-> failAt # 0,
   written |-> IF failAt = 0 THEN n ELSE failAt - 1,
   paths |-> IF failAt = 0 THEN n ELSE 0]

\* a staging block that goes on with the files written before the failure
stageMediaKeepsWritten(n, failAt) ==
  IF n > 0
    THEN LET saved == saveMediaFiles(n, failAt)
         IN [written |-> saved.written, paths |-> saved.written]
    ELSE [written |-> 0, paths |-> 0]

\* the staging block of processMessage: mediaFilePaths is what saveMediaFiles
\* returned, or [] when there is no media or when it threw
stageMedia(n, failAt) ==
  IF n > 0
    THEN LET saved == saveMediaFiles(n, failAt)
         IN [written |-> saved.written,
             paths |-> IF saved.threw THEN 0 ELSE saved.paths]
    ELSE [written |-> 0, paths |-> 0]

\* cleanupMediaFiles(filePaths): each path that exists is unlinked; an error
\* of unlinkSync is ignored
cleanupMediaFiles(d, m, paths, ok) ==
  IF ok THEN d \ {<<m, i>> : i \in 1..paths} ELSE d

\* ------------------------------------------------------------------ startup
\* how OpenPhoneService.initialize can end
InitOutcomes == {"ok", "loginFailed", "unreachable", "secondFactorTimeout"}

\* initialize rethrows every error of the launch, the navigation and the login
initializeThrows(outcome) == outcome # "ok"

\* -------------------------------------------------------------- the login
\* what a candidate selector of a login step resolves to: page.$ gives null,
\* an element that is not visible, a visible element, or the call raises
Resolutions == {"absent", "hidden", "visible", "raises"}

\* the candidate lists of a login step, up to MaxCandidates selectors long
Candidates == UNION {[1..n -> Resolutions] : n \in 1..MaxCandidates}

\* no element handle (null)
NoElement == [index |-> 0, state |-> "absent"]

\* the selector loops of performLogin steps 1, 2, 3 and 5: the handle
\* variable is assigned the result of page.$ for each selector in turn and
\* the loop breaks at the first handle that is visible; a raise is caught and
\* leaves the variable as it was. The value is the handle after the loop.
RECURSIVE locate(_, _, _)
locate(cands, i, handle) ==
  IF i > Len(cands) THEN handle
  ELSE IF cands[i] = "raises" THEN locate(cands, i + 1, handle)
  ELSE IF cands[i] = "visible" THEN [index |-> i, state |-> "visible"]
  ELSE IF cands[i] = "hidden"
    THEN locate(cands, i + 1, [index |-> i, state |-> "hidden"])
    ELSE locate(cands, i + 1, NoElement)

\* the selector loop of step 4: waitForSelector(state: 'visible') raises for
\* every candidate that does not become visible, and the loop goes on
RECURSIVE waitForSelectors(_, _)
waitForSelectors(cands, i) ==
  IF i > Len(cands) THEN NoElement
  ELSE IF cands[i] = "visible" THEN [index |-> i, state |-> "visible"]
  ELSE waitForSelectors(cands, i + 1)

\* a login step has not run
NotRun == [ran |-> FALSE, cands |-> <<>>, acted |-> NoElement,
           enter |-> FALSE, raised |-> FALSE]

\* step 1: the "Email & password" button is clicked inside the loop, when it
\* is visible; without it the login goes on
clickEntry(cands) ==
  LET e == locate(cands, 1, NoElement)
  IN [ran |-> TRUE, cands |-> cands,
      acted |-> IF e.state = "visible" THEN e ELSE NoElement,
      enter |-> FALSE, raised |-> FALSE]

\* step 2: a null handle after the loop is fatal; otherwise the handle is
\* clicked, cleared and typed into, and the click on an element that is not
\* visible runs into the default timeout
enterEmail(cands) ==
  LET e == locate(cands, 1, NoElement)
  IN [ran |-> TRUE, cands |-> cands, acted |-> e, enter |-> FALSE,
      raised |-> e.state # "visible"]

\* steps 3 and 5: a non-null handle after the loop is clicked, with a null
\* handle Enter is pressed
clickContinue(cands) ==
  LET e == locate(cands, 1, NoElement)
  IN [ran |-> TRUE, cands |-> cands, acted |-> e, enter |-> e = NoElement,
      raised |-> e.state = "hidden"]

\* step 4: the password field; no candidate visible is fatal
enterPassword(cands) ==
  LET e == waitForSelectors(cands, 1)
  IN [ran |-> TRUE, cands |-> cands, acted |-> e, enter |-> FALSE,
      raised |-> e = NoElement]

\* the wait of step 6 for the inbox after a second-factor challenge
SecondFactorWindow == 120000

\* the steps of performLogin that search a candidate list
LoginSteps == {"entry", "email", "continue1", "password", "continue2"}

\* the classes of URL the code tells apart
Views == {"inbox", "login", "secondFactor", "other"}

\* the behaviour of the remote console during one initialize call:
\* reachable: chromium.launch, newContext and the first goto succeed;
\* landing, signIn: the URL after the first goto and whether a sign-in
\*   button or an email input is in the view;
\* entry .. continue2: what the candidates of each step resolve to;
\* after: the URL 30 s after the credentials were submitted;
\* completes: ms into the second-factor wait at which the inbox is reached;
\* manual: the URL after the manual goto of step 6
LoginCase(after) ==
  [reachable |-> TRUE, landing |-> "login", signIn |-> TRUE,
   entry |-> <<"visible">>, email |-> <<"visible">>,
   continue1 |-> <<"visible">>, password |-> <<"visible">>,
   continue2 |-> <<"visible">>,
   after |-> after, completes |-> 2 * SecondFactorWindow,
   manual |-> "inbox"]

\* the behaviour behind each outcome of InitOutcomes
CaseOf(outcome) ==
  IF outcome = "ok" THEN LoginCase("inbox")
  ELSE IF outcome = "loginFailed" THEN LoginCase("login")
  ELSE IF outcome = "secondFactorTimeout" THEN LoginCase("secondFactor")
  ELSE [LoginCase("inbox") EXCEPT !.reachable = FALSE]

\* the behaviours of a run: those behind InitOutcomes, and, when the login is
\* explored in detail, every landing view, every course of step 6, and every
\* candidate list for one step at a time
LoginCases(detail) ==
  {CaseOf(outcome) : outcome \in InitOutcomes}
    \cup (IF detail
            THEN {[LoginCase("inbox") EXCEPT !.landing = l, !.signIn = b] :
                    l \in Views \ {"secondFactor"}, b \in BOOLEAN}
                 \cup {[LoginCase(a) EXCEPT !.completes = t, !.manual = v] :
                         a \in Views,
                         t \in {SecondFactorWindow \div 2,
                                2 * SecondFactorWindow},
                         v \in {"inbox", "login", "other", "raises"}}
                 \cup {[LoginCase("inbox") EXCEPT ![step] = cands] :
                         step \in LoginSteps, cands \in Candidates}
            ELSE {})

\* checkNeedsLogin: by the URL, else by the presence of sign-in controls
checkNeedsLogin(c) ==
  IF c.landing = "login" THEN TRUE
  ELSE IF c.landing = "inbox" THEN FALSE
  ELSE c.signIn

\* step 6 of a performLogin that fails only when the URL is still the login
\* page
awaitInboxLenient(c) ==
  IF c.after = "inbox" THEN [raised |-> FALSE, view |-> "inbox", waited |-> 0]
  ELSE IF c.after = "secondFactor"
    THEN IF c.completes < SecondFactorWindow
           THEN [raised |-> FALSE, view |-> "inbox", waited |-> c.completes]
           ELSE [raised |-> FALSE, view |-> "secondFactor",
                 waited |-> SecondFactorWindow]
  ELSE IF c.after = "login"
    THEN [raised |-> TRUE, view |-> "login", waited |-> 0]
  ELSE [raised |-> c.manual = "raises",
        view |-> IF c.manual = "raises" THEN "other" ELSE c.manual,
        waited |-> 0]

\* step 6 of performLogin: waitForURL(inbox) for 30 s; when it times out, on
\* a second-factor URL a second waitForURL(inbox) of SecondFactorWindow, on a
\* login URL an error, on any other URL a goto to the inbox whose landing
\* view is not looked at
awaitInbox(c) ==
  IF c.after = "inbox" THEN [raised |-> FALSE, view |-> "inbox", waited |-> 0]
  ELSE IF c.after = "secondFactor"
    THEN IF c.completes < SecondFactorWindow
           THEN [raised |-> FALSE, view |-> "inbox", waited |-> c.completes]
           ELSE [raised |-> TRUE, view |-> "secondFactor",
                 waited |-> SecondFactorWindow]
  ELSE IF c.after = "login"
    THEN [raised |-> TRUE, view |-> "login", waited |-> 0]
  ELSE [raised |-> c.manual = "raises",
        view |-> IF c.manual = "raises" THEN "other" ELSE c.manual,
        waited |-> 0]

\* performLogin was not called
NoLogin ==
  [entry |-> NotRun, email |-> NotRun, continue1 |-> NotRun,
   password |-> NotRun, continue2 |-> NotRun,
   raised |-> FALSE, view |-> "login", waited |-> 0, submitted |-> FALSE,
   challenged |-> FALSE, reached |-> 0]

\* performLogin: steps 1 to 6 in order; the first step that raises ends it
\* with 'Login failed: ...'
performLogin(c) ==
  LET s1 == clickEntry(c.entry)
      s2 == enterEmail(c.email)
      s3 == clickContinue(c.continue1)
      s4 == enterPassword(c.password)
      s5 == clickContinue(c.continue2)
      s6 == awaitInbox(c)
      at2 == [NoLogin EXCEPT !.entry = s1, !.email = s2]
      at3 == [at2 EXCEPT !.continue1 = s3]
      at4 == [at3 EXCEPT !.password = s4]
      at5 == [at4 EXCEPT !.continue2 = s5]
  IN IF s2.raised THEN [at2 EXCEPT !.raised = TRUE]
     ELSE IF s3.raised THEN [at3 EXCEPT !.raised = TRUE]
     ELSE IF s4.raised THEN [at4 EXCEPT !.raised = TRUE]
     ELSE IF s5.raised THEN [at5 EXCEPT !.raised = TRUE]
     ELSE [at5 EXCEPT !.raised = s6.raised, !.view = s6.view,
                      !.waited = s6.waited, !.submitted = TRUE,
                      !.challenged = (c.after = "secondFactor"),
                      !.reached = IF c.after = "secondFactor"
                                    THEN c.completes ELSE 0]

\* initialize was not called
NoInit ==
  [outcome |-> "none", needsLogin |-> FALSE, saved |-> FALSE,
   view |-> "none", login |-> NoLogin]

\* initialize: launch and first goto, checkNeedsLogin, and when a login is
\* needed performLogin followed by context.storageState and a second goto
initializeRun(c) ==
  IF ~c.reachable
    THEN [NoInit EXCEPT !.outcome = "unreachable"]
  ELSE IF ~checkNeedsLogin(c)
    THEN [NoInit EXCEPT !.outcome = "ok", !.view = c.landing]
  ELSE LET l == performLogin(c)
       IN [outcome |-> IF ~l.raised THEN "ok"
                       ELSE IF l.view = "secondFactor"
                         THEN "secondFactorTimeout"
                         ELSE "loginFailed",
           needsLogin |-> TRUE, saved |-> ~l.raised,
           view |-> l.view, login |-> l]

\* the content of storageState.json: none, the material of an authenticated
\* session, or that of a session that is not authenticated
storageState(stored, run) ==
  IF ~run.saved THEN stored
  ELSE IF run.view = "inbox" THEN "session" ELSE "stale"

\* ------------------------------------------------------------------- sinks
Sinks == {"audit", "upload", "notify"}

\* the body of the 200 response of POST /webhook/send
webhookResponse(m) ==
  [msg |-> m, success |-> TRUE, message |-> "Message added to queue"]

\* sendMessage threw, or a call inside the attempt's try block did
Thrown ==
  [threw |-> TRUE, success |-> FALSE, status |-> FAILED,
   errorCode |-> NoString, error |-> NoString]

\* ----------------------------------------------------------------- ingress
QUO_MAX_ATTACHMENTS == 10
QUO_MAX_TOTAL_SIZE == 5 * 1024 * 1024
RECOMMENDED_SIZE == 600 * 1024

SUPPORTED_MIME_TYPES ==
  {"image/jpeg", "image/jpg", "image/png", "image/gif", "image/webp",
   "application/pdf", "video/mp4", "video/quicktime"}

DigitChars == {"0", "1", "2", "3", "4", "5", "6", "7", "8", "9"}

\* payload.phone.replace(/[\s\-()]/g, '')
stripSeparators(phone) ==
  SelectSeq(phone, LAMBDA c : c \notin {" ", "-", "(", ")"})

\* /^\+?[0-9]{10,15}$/.test(phone)
phoneRegexTest(phone) ==
  LET digits == IF Len(phone) > 0 /\ phone[1] = "+" THEN Tail(phone)
                                                     ELSE phone
  IN /\ Len(digits) >= 10
     /\ Len(digits) <= 15
     /\ \A i \in 1..Len(digits) : digits[i] \in DigitChars

\* The data string of a MediaFile is described by its length, by the number
\* of '=' characters it ends with, and by whether every other character is
\* one of [A-Za-z0-9+/].
Base64(len, pad) == [len |-> len, pad |-> pad, clean |-> TRUE]

\* /^[A-Za-z0-9+/]*={0,2}$/.test(data)
base64RegexTest(data) == data.clean /\ data.pad <= 2

\* Buffer.from(data, 'base64').length for a padded base64 string: three
\* bytes for every four characters, less the padding
decodedSize(data) == (data.len \div 4) * 3 - data.pad

\* Math.ceil(media.data.length * 0.75)
fileSizeBytes(data) == (3 * data.len + 3) \div 4

NoError == [text |-> "", file |-> 0]

\* validateMediaFile(media): format only
validateMediaFile(media) ==
  IF media.filename = "" \/ media.mimeType = "" \/ media.data.len = 0
    THEN [valid |-> FALSE,
          error |-> "Missing required fields (filename, mimeType, data)"]
    ELSE IF media.mimeType \notin SUPPORTED_MIME_TYPES
      THEN [valid |-> FALSE, error |-> "Unsupported MIME type"]
      ELSE IF ~base64RegexTest(media.data)
        THEN [valid |-> FALSE, error |-> "Invalid base64 encoding"]
        ELSE [valid |-> TRUE, error |-> ""]

RECURSIVE totalSize(_, _)
\* the sum the loop of validateMediaFiles has accumulated after n files
totalSize(mediaFiles, n) ==
  IF n = 0 THEN 0
  ELSE totalSize(mediaFiles, n - 1) + fileSizeBytes(mediaFiles[n].data)

\* validateMediaFiles(mediaFiles): count, format of each file in order, total
\* size, advisory warning
validateMediaFiles(mediaFiles) ==
  IF Len(mediaFiles) = 0
    THEN [valid |-> TRUE, error |-> NoError, warning |-> FALSE,
          totalSizeBytes |-> 0]
    ELSE IF Len(mediaFiles) > QUO_MAX_ATTACHMENTS
      THEN [valid |-> FALSE,
            error |-> [text |-> "Too many attachments", file |-> 0],
            warning |-> FALSE, totalSizeBytes |-> 0]
      ELSE LET bad == {i \in 1..Len(mediaFiles) :
                          ~validateMediaFile(mediaFiles[i]).valid}
               total == totalSize(mediaFiles, Len(mediaFiles))
           IN IF bad # {}
                THEN LET i == CHOOSE k \in bad : \A j \in bad : k <= j
                     IN [valid |-> FALSE,
                         error |-> [text |-> validateMediaFile(
                                               mediaFiles[i]).error,
                                    file |-> i],
                         warning |-> FALSE, totalSizeBytes |-> 0]
                ELSE IF total > QUO_MAX_TOTAL_SIZE
                  THEN [valid |-> FALSE,
                        error |-> [text |-> "Total media size exceeds Quo limit",
                                   file |-> 0],
                        warning |-> FALSE, totalSizeBytes |-> total]
                  ELSE [valid |-> TRUE, error |-> NoError,
                        warning |-> total > RECOMMENDED_SIZE,
                        totalSizeBytes |-> total]

\* a phone number in E.164 form, one written with separators, and a word
PhoneOk == <<"+","1","5","5","5","1","2","3","4","5","6","7">>
PhoneFormatted == <<"(","5","5","5",")"," ","1","2","3","-","4","5","6","7">>
PhoneWord == <<"n","o","n","e">>
Hello == <<"h","e","l","l","o">>

\* a MediaFile
File(filename, mimeType, data) ==
  [filename |-> filename, mimeType |-> mimeType, data |-> data]

\* a one-byte PNG ("QQ==")
SmallPng == File("a.png", "image/png", Base64(4, 2))

\* a WebhookPayload; a missing phone or text is the empty string
Payload(phone, text, mediaFiles) ==
  [phone |-> phone, text |-> text, media |-> mediaFiles]

NoPayload == Payload(NoString, NoString, <<>>)

\* the payload of the callers that only submit well-formed messages with n
\* small attachments
payloadOf(n) == Payload(PhoneOk, Hello, [i \in 1..n |-> SmallPng])

\* the 400 responses of POST /webhook/send, or NoRejection when the payload
\* passes the three checks of the route
NoRejection ==
  [msg |-> 0, success |-> TRUE, status |-> 200, message |-> "",
   error_code |-> "", error |-> NoError]

webhookSendRejection(payload) ==
  IF payload.phone = NoString \/ payload.text = NoString
    THEN [msg |-> 0, success |-> FALSE, status |-> 400,
          message |-> "Validation failed",
          error_code |-> "VALIDATION_ERROR",
          error |-> [text |-> "Missing required fields: phone and text",
                     file |-> 0]]
    ELSE IF ~phoneRegexTest(stripSeparators(payload.phone))
      THEN [msg |-> 0, success |-> FALSE, status |-> 400,
            message |-> "Invalid phone format",
            error_code |-> "INVALID_PHONE",
            error |-> [text |-> "Invalid phone number format", file |-> 0]]
      ELSE IF Len(payload.media) > 0
                /\ ~validateMediaFiles(payload.media).valid
        THEN [msg |-> 0, success |-> FALSE, status |-> 400,
              message |-> "Media validation failed",
              error_code |-> "INVALID_MEDIA",
              error |-> validateMediaFiles(payload.media).error]
        ELSE NoRejection

\* ------------------------------------------------------------------- state
VARIABLES
  queue,      \* p-queue: ids of the jobs waiting, head first
  pending,    \* p-queue: number of jobs running
  isPaused,   \* p-queue: paused flag
  page,       \* OpenPhoneService.page is non-null
  sd,         \* position of main: starting, serving ("none"), the steps
              \* of main.shutdown, or ended
  maxRetries, \* config.queue.maxRetries
  budget,     \* number of messages the callers submit in this run
  uiErrors,   \* errors the UI driver can raise in this run
  uiDetail,   \* the run explores every raising call and attach control
  loginDetail, \* the run explores every course of the login
  login,      \* what the initialize call of this run did
  storage,    \* content of storageState.json
  media,      \* number of attachments each submitted message carries
  unlinkOk,   \* fs.unlinkSync succeeds in this run
  sinkFaults, \* the sinks whose calls can fail in this run
  disk,       \* temp-media directory: <<message, index>> of the files in it
  mediaFilePaths, \* per message: number of paths held by processMessage
  auditLost,  \* positions in audit whose insert failed
  callbacksLost, \* positions in callbacks whose POST failed
  noUrls,     \* positions in callbacks sent without screenshot URLs
  unsettled,  \* the sink whose awaited call has not settled, or "none"
  responses,  \* HTTP responses of the webhook routes, in order
  requests,   \* the requests the webhook routes received, in order
  accepted,   \* per message: the payload handed to addMessage
  driver,     \* per message: the delivery sequence of its last attempt
  submitted,  \* number of addMessage calls so far
  pc,         \* per message: position of its processMessage call
  attempt,    \* per message: the attempt counter of processMessage
  result,     \* per message: what its last sendMessage call gave
  timer,      \* per message: duration of the sleep it is in, 0 if none
  sends,      \* per message: number of sendMessage calls
  audit,      \* records handed to logAttempt, in order
  callbacks,  \* payloads handed to sendCallback, in order
  started,    \* ids in the order their processMessage began
  lastPause   \* inter-message pause slept since the last terminal state:
              \* -1 before any terminal state, 0 if none was slept

vars == <<queue, pending, isPaused, page, sd, maxRetries, budget, uiErrors,
          uiDetail, loginDetail, login, storage, driver, media, unlinkOk,
          sinkFaults, disk, mediaFilePaths, auditLost,
          callbacksLost, noUrls, unsettled, responses, requests, accepted,
          submitted, pc, attempt, result, timer, sends, audit, callbacks,
          started, lastPause>>

\* configuration and environment of a run: never assigned after Init
env == <<maxRetries, budget, uiErrors, uiDetail, loginDetail, media, unlinkOk,
        sinkFaults>>

\* what the sinks and the file staging have left behind
files == <<disk, mediaFilePaths>>
sinks == <<auditLost, callbacksLost, noUrls, unsettled>>

\* what the HTTP layer has received and handed on
ingress == <<requests, accepted>>

\* the browser session: what initialize did and the persisted material
session == <<login, storage>>

\* an audit trail that records outcomes only, not the start of an attempt
logAttemptOutcomeOnly(log, m, att, status, errorCode) ==
  IF status = SENDING THEN log
  ELSE Append(log, [msg |-> m, attempt |-> att, status |-> status,
                    code |-> errorCode])

\* logAttempt(phone, text, externalId, attempt, status, errorCode, errorText)
logAttempt(log, m, att, status, errorCode) ==
  Append(log, [msg |-> m, attempt |-> att, status |-> status,
               code |-> errorCode])

\* the rows of message m that the audit table holds
StoredOf(log, lost, m) ==
  LET kept == {i \in 1..Len(log) : log[i].msg = m /\ i \notin lost}
      RECURSIVE rows(_)
      rows(n) == IF n = 0 THEN <<>>
                 ELSE IF n \in kept THEN Append(rows(n - 1), log[n])
                 ELSE rows(n - 1)
  IN rows(Len(log))

\* supabaseService.logMessage: when the insert fails the error is logged and
\* swallowed, and the row at position i is missing from the table
logMessage(lost, i, ok) == IF ok THEN lost ELSE lost \cup {i}

\* a logAttempt without its try/catch: a failed insert escapes to the caller
logAttemptRethrows(ok) == ~ok

\* whether a call of logAttempt throws: both logMessage and logAttempt catch
logAttemptThrows(ok) == FALSE

\* a notifier that reports successes only
sendCallbackSuccessOnly(cbs, m, att, status, errorCode) ==
  IF status = FAILED THEN cbs
  ELSE Append(cbs, [msg |-> m, attempt |-> att, status |-> status,
                    code |-> errorCode])

\* a notifier that reports terminal states only
sendCallbackTerminalOnly(cbs, m, att, status, errorCode) ==
  IF status = RETRYING THEN cbs
  ELSE Append(cbs, [msg |-> m, attempt |-> att, status |-> status,
                    code |-> errorCode])

\* n8nWebhookService.sendCallback(payload)
sendCallback(cbs, m, att, status, errorCode) ==
  Append(cbs, [msg |-> m, attempt |-> att, status |-> status,
               code |-> errorCode])

\* the POST inside sendCallback: a failure (fetch rejects, status not ok) is
\* logged and swallowed, and the payload at position i never arrives
postCallback(lost, i, ok) == IF ok THEN lost ELSE lost \cup {i}

\* supabaseService.uploadScreenshots: a failed upload yields no URL, so the
\* payload at position i carries none
uploadScreenshots(none, i, ok) == IF ok THEN none ELSE none \cup {i}

\* the outcomes a call to a sink can have in this run
SinkResults(sink) == IF sink \in sinkFaults THEN BOOLEAN ELSE {TRUE}

\* the sink calls whose promise may stay pending for ever in this run: none of
\* the calls carries a timeout (fetch in sendCallback has none)
SinkHangs(called) ==
  IF "stall" \in sinkFaults THEN {"none"} \cup called ELSE {"none"}

\* a worker that starts the sink calls and does not wait for them
awaitsNothing(hung) == FALSE

\* `await` on a sink call: the job goes on only when the call has settled
awaits(hung) == hung # "none"

\* a queue that starts the job added last
tryToStartAnotherLifo(s, paused) ==
  IF Len(s.queue) = 0
    THEN [s EXCEPT !.sd = IF s.pending = 0 /\ s.sd = "draining"
                            THEN "closing" ELSE s.sd]
    ELSE IF ~paused /\ s.pending < Concurrency
      THEN LET last == s.queue[Len(s.queue)]
           IN [s EXCEPT !.queue = SubSeq(s.queue, 1, Len(s.queue) - 1),
                        !.pending = s.pending + 1,
                        !.pc = [s.pc EXCEPT ![last] = "stage"],
                        !.started = Append(s.started, last)]
      ELSE s

\* a queue that starts jobs while paused
tryToStartAnotherPaused(s, paused) ==
  IF Len(s.queue) = 0
    THEN [s EXCEPT !.sd = IF s.pending = 0 /\ s.sd = "draining"
                            THEN "closing" ELSE s.sd]
    ELSE IF s.pending < Concurrency
      THEN [s EXCEPT !.queue = Tail(s.queue),
                     !.pending = s.pending + 1,
                     !.pc = [s.pc EXCEPT ![Head(s.queue)] = "stage"],
                     !.started = Append(s.started, Head(s.queue))]
      ELSE s

\* p-queue tryToStartAnother on the queue state s: emits 'idle' when nothing
\* waits and nothing runs (the shutdown waiting in onIdle goes on to close
\* the browser), otherwise starts the head job if the queue is not paused and
\* fewer than Concurrency jobs run
tryToStartAnother(s, paused) ==
  IF Len(s.queue) = 0
    THEN [s EXCEPT !.sd = IF s.pending = 0 /\ s.sd = "draining"
                            THEN "closing" ELSE s.sd]
    ELSE IF ~paused /\ s.pending < Concurrency
      THEN [s EXCEPT !.queue = Tail(s.queue),
                     !.pending = s.pending + 1,
                     !.pc = [s.pc EXCEPT ![Head(s.queue)] = "stage"],
                     !.started = Append(s.started, Head(s.queue))]
      ELSE s

QState == [queue |-> queue, pending |-> pending, pc |-> pc,
           started |-> started, sd |-> sd]

SetQState(s) ==
  /\ queue' = s.queue
  /\ pending' = s.pending
  /\ pc' = s.pc
  /\ started' = s.started
  /\ sd' = s.sd

\* the process has not ended
Alive == sd \notin {"exited", "startFailed"}

\* an HTTP server that listens as soon as the process starts
ListeningEarly(s) == s \notin {"exited", "startFailed"}

\* the HTTP server accepts requests: app.listen has run and the process lives
\* (server.close in shutdown leaves the open connections usable)
Listening(s) == s \in {"none", "draining", "closing", "closed"}

\* the state when main() begins: nothing is constructed yet
Constructed ==
  /\ queue = <<>>
  /\ pending = 0
  /\ isPaused = FALSE
  /\ page = FALSE
  /\ sd = "starting"
  /\ submitted = 0
  /\ pc = [m \in MsgIds |-> "none"]
  /\ attempt = [m \in MsgIds |-> 0]
  /\ result = [m \in MsgIds |-> NoResult]
  /\ timer = [m \in MsgIds |-> 0]
  /\ sends = [m \in MsgIds |-> 0]
  /\ audit = <<>>
  /\ callbacks = <<>>
  /\ started = <<>>
  /\ lastPause = -1
  /\ disk = {}
  /\ mediaFilePaths = [m \in MsgIds |-> 0]
  /\ auditLost = {}
  /\ callbacksLost = {}
  /\ noUrls = {}
  /\ unsettled = "none"
  /\ responses = <<>>
  /\ requests = <<>>
  /\ accepted = [m \in MsgIds |-> NoPayload]
  /\ driver = [m \in MsgIds |-> NoRun]
  /\ login = NoInit

\* several messages without attachments, the common driver errors, sinks up
Init ==
  /\ Constructed
  /\ maxRetries \in MaxRetriesValues
  /\ budget = MaxMessages
  /\ uiErrors = {"timeout", "connreset"}
  /\ uiDetail = FALSE
  /\ loginDetail = FALSE
  /\ storage = "none"
  /\ media = 0
  /\ unlinkOk = TRUE
  /\ sinkFaults = {}

\* one message, every driver error, a retry ceiling that reaches the backoff cap
DeepInit ==
  /\ Constructed
  /\ maxRetries \in {DefaultMaxRetries, MaxRetriesBound}
  /\ budget = 1
  /\ uiErrors = StepErrors
  /\ uiDetail = FALSE
  /\ loginDetail = FALSE
  /\ storage = "none"
  /\ media = 0
  /\ unlinkOk = TRUE
  /\ sinkFaults = {}

\* one message with attachments; staging and deletion can fail
MediaInit ==
  /\ Constructed
  /\ maxRetries \in {1, DefaultMaxRetries}
  /\ budget = 1
  /\ uiErrors = {"timeout"}
  /\ uiDetail = FALSE
  /\ loginDetail = FALSE
  /\ storage = "none"
  /\ media \in 1..MaxMedia
  /\ unlinkOk \in BOOLEAN
  /\ sinkFaults = {}

\* one message; every call to the audit store can fail, or every call to
\* the artifact store and to the notification endpoint can
SinkInit ==
  /\ Constructed
  /\ maxRetries \in {1, DefaultMaxRetries}
  /\ budget = 1
  /\ uiErrors = {"timeout"}
  /\ uiDetail = FALSE
  /\ loginDetail = FALSE
  /\ storage = "none"
  /\ media = 0
  /\ unlinkOk = TRUE
  /\ sinkFaults \in {{"audit"}, Sinks \ {"audit"}}

\* several messages, the default retry ceiling, one kind of driver error
QueueInit ==
  /\ Constructed
  /\ maxRetries = DefaultMaxRetries
  /\ budget = MaxMessages
  /\ uiErrors = {"timeout"}
  /\ uiDetail = FALSE
  /\ loginDetail = FALSE
  /\ storage = "none"
  /\ media = 0
  /\ unlinkOk = TRUE
  /\ sinkFaults = {}

\* two messages, so that one can be in flight while the other waits, or both
\* wait in a paused queue; the default retry ceiling
PairInit ==
  /\ Constructed
  /\ maxRetries = DefaultMaxRetries
  /\ budget = 2
  /\ uiErrors = {"timeout"}
  /\ uiDetail = FALSE
  /\ loginDetail = FALSE
  /\ storage = "none"
  /\ media = 0
  /\ unlinkOk = TRUE
  /\ sinkFaults = {}

\* two messages and one retry; any call to a sink may stay pending for ever
HangInit ==
  /\ Constructed
  /\ maxRetries = 2
  /\ budget = 2
  /\ uiErrors = {"timeout"}
  /\ uiDetail = FALSE
  /\ loginDetail = FALSE
  /\ storage = "none"
  /\ media = 0
  /\ unlinkOk = TRUE
  /\ sinkFaults = {"stall"}

\* one request to a webhook route by any caller; one attempt per message, the
\* driver raises nothing
IngressInit ==
  /\ Constructed
  /\ maxRetries = 1
  /\ budget = 1
  /\ uiErrors = {}
  /\ uiDetail = FALSE
  /\ loginDetail = FALSE
  /\ storage = "none"
  /\ media = 0
  /\ unlinkOk = TRUE
  /\ sinkFaults = {}

\* one message with or without an attachment; every call to the browser can
\* raise a timeout, and the composer has any of the attach controls
DriverInit ==
  /\ Constructed
  /\ maxRetries \in {1, DefaultMaxRetries}
  /\ budget = 1
  /\ uiErrors = {"timeout"}
  /\ uiDetail = TRUE
  /\ loginDetail = FALSE
  /\ storage = "none"
  /\ media \in {0, 1}
  /\ unlinkOk = TRUE
  /\ sinkFaults = {}

\* one message, one attempt, every raising call of the delivery sequence with
\* each of two errors of the browser automation
ResultInit ==
  /\ Constructed
  /\ maxRetries = 1
  /\ budget = 1
  /\ uiErrors = {"timeout", "connreset"}
  /\ uiDetail = TRUE
  /\ loginDetail = FALSE
  /\ storage = "none"
  /\ media \in {0, 1}
  /\ unlinkOk = TRUE
  /\ sinkFaults = {}

\* one message that always goes through, behind every course of the login
\* and every content of storageState.json
LoginInit ==
  /\ Constructed
  /\ maxRetries = 1
  /\ budget = 1
  /\ uiErrors = {}
  /\ uiDetail = FALSE
  /\ loginDetail = TRUE
  /\ storage \in {"none", "session", "stale"}
  /\ media = 0
  /\ unlinkOk = TRUE
  /\ sinkFaults = {}

\* main(): OpenPhoneService.initialize runs first; when it throws the catch
\* of main ends the process, otherwise the queue is built and the server
\* starts listening
initialize ==
  /\ sd = "starting"
  /\ \E c \in LoginCases(loginDetail) :
       \E run \in {initializeRun(c)} :
         /\ IF initializeThrows(run.outcome)
              THEN sd' = "startFailed" /\ UNCHANGED page
              ELSE sd' = "none" /\ page' = TRUE
         /\ login' = run
         /\ storage' = storageState(storage, run)
  /\ UNCHANGED <<queue, pending, isPaused, env, ingress, driver, files, sinks,
                 responses, submitted, pc, attempt, result, timer, sends,
                 audit, callbacks, started, lastPause>>

\* a submit that puts the job at the front of the queue
enqueueFront(q, m) == <<m>> \o q

\* p-queue enqueue with equal priorities: the job goes to the tail
enqueue(q, m) == Append(q, m)

\* the bodies POST /webhook/send is called with when the callers are not
\* trusted: each way of failing a check of the route, sizes on both sides of
\* the two size limits, and lists of up to MaxMedia files
MediaItems ==
  {SmallPng,
   File("a.png", "image/png", Base64(819200, 0)),
   File("a.png", "image/png", Base64(6990504, 0)),
   File("a.png", "image/png", Base64(6990508, 1)),
   File("a.png", "image/png", Base64(6990508, 0))}

MediaLists ==
  {<<>>,
   [i \in 1..(QUO_MAX_ATTACHMENTS + 1) |-> SmallPng],
   <<File("a.heic", "image/heic", Base64(4, 2))>>,
   <<File("a.png", "image/png", [len |-> 4, pad |-> 0, clean |-> FALSE])>>,
   <<File("", "image/png", Base64(4, 2))>>}
    \cup UNION {[1..n -> MediaItems] : n \in 1..MaxMedia}

Payloads ==
  {Payload(phone, text, <<>>) :
     phone \in {PhoneOk, PhoneFormatted, PhoneWord, NoString},
     text \in {Hello, NoString}}
    \cup {Payload(PhoneOk, Hello, mediaFiles) : mediaFiles \in MediaLists}

\* the elements of the messages array POST /webhook/send-batch is called with
BatchPayloads ==
  {Payload(PhoneOk, Hello, <<>>),
   Payload(PhoneOk, NoString, <<>>),
   Payload(PhoneWord, Hello, <<>>),
   Payload(PhoneOk, Hello, [i \in 1..(QUO_MAX_ATTACHMENTS + 1) |-> SmallPng])}

BatchBodies == UNION {[1..n -> BatchPayloads] : n \in 0..MaxMessages}

\* QueueService.addMessage(payload): queue.add enqueues the job and tries to
\* start it; s holds the queue state, the payloads and the message count
queueAdd(s, payload, paused) ==
  LET m == s.submitted + 1
  IN [s EXCEPT !.q = tryToStartAnother(
                       [s.q EXCEPT !.queue = enqueue(s.q.queue, m),
                                   !.pc = [s.q.pc EXCEPT ![m] = "queued"]],
                       paused),
               !.accepted = [s.accepted EXCEPT ![m] = payload],
               !.submitted = m]

\* POST /webhook/send with the body payload: the three checks, then
\* QueueService.addMessage and the acknowledgement
postSend(payload) ==
  /\ Listening(sd)
  /\ Len(requests) < budget
  /\ requests' = Append(requests, [route |-> "send", messages |-> <<payload>>])
  /\ \E rejection \in {webhookSendRejection(payload)} :
       IF rejection.success
         THEN \E s \in {queueAdd([q |-> QState, accepted |-> accepted,
                                  submitted |-> submitted],
                                 payload, isPaused)} :
                /\ SetQState(s.q)
                /\ accepted' = s.accepted
                /\ submitted' = s.submitted
                /\ responses' = Append(responses, webhookResponse(s.submitted))
         ELSE /\ responses' = Append(responses, rejection)
              /\ UNCHANGED <<queue, pending, pc, started, sd, accepted,
                             submitted>>
  /\ UNCHANGED <<isPaused, page, env, session, driver, files, sinks, attempt,
                 result,
                 timer, sends, audit, callbacks, lastPause>>

\* POST /webhook/send by callers that submit well-formed messages only
addMessage == postSend(payloadOf(media))

\* POST /webhook/send by any caller
webhookSend == \E payload \in Payloads : postSend(payload)

RECURSIVE batchLoop(_, _, _)
\* the loop of POST /webhook/send-batch: a message without phone or text is
\* skipped with a failure entry, every other message goes to addMessage
batchLoop(s, messages, paused) ==
  IF messages = <<>> THEN s
  ELSE LET message == Head(messages)
       IN IF message.phone = NoString \/ message.text = NoString
            THEN batchLoop([s EXCEPT !.results = Append(s.results, FALSE)],
                           Tail(messages), paused)
            ELSE batchLoop(
                   [queueAdd(s, message, paused)
                      EXCEPT !.results = Append(s.results, TRUE)],
                   Tail(messages), paused)

\* the response of POST /webhook/send-batch
batchResponse(messages, results) ==
  IF Len(messages) = 0
    THEN [msg |-> 0, success |-> FALSE, status |-> 400,
          message |-> "", error_code |-> "",
          error |-> [text |-> "Missing or invalid messages array",
                     file |-> 0]]
    ELSE [msg |-> 0, success |-> TRUE, status |-> 200,
          message |-> "messages added to queue", results |-> results]

\* POST /webhook/send-batch by any caller
webhookSendBatch ==
  /\ Listening(sd)
  /\ Len(requests) < budget
  /\ \E messages \in BatchBodies :
       /\ submitted + Len(messages) <= MaxMessages
       /\ requests' = Append(requests,
                             [route |-> "send-batch", messages |-> messages])
       /\ \E s \in {batchLoop([q |-> QState, accepted |-> accepted,
                               submitted |-> submitted, results |-> <<>>],
                              messages, isPaused)} :
            /\ SetQState(s.q)
            /\ accepted' = s.accepted
            /\ submitted' = s.submitted
            /\ responses' = Append(responses,
                                   batchResponse(messages, s.results))
  /\ UNCHANGED <<isPaused, page, env, session, driver, files, sinks, attempt,
                 result,
                 timer, sends, audit, callbacks, lastPause>>

\* QueueService.pause
pause ==
  /\ Listening(sd)
  /\ isPaused' = TRUE
  /\ UNCHANGED <<queue, pending, page, sd, env, session, ingress, driver,
                 files, sinks, responses,
                 submitted, pc, attempt, result, timer, sends, audit,
                 callbacks, started, lastPause>>

\* a resume that clears the flag and starts nothing
resumeFlagOnly ==
  /\ Listening(sd)
  /\ isPaused' = FALSE
  /\ UNCHANGED <<queue, pending, page, sd, env, session, ingress, driver,
                 files, sinks, responses,
                 submitted, pc, attempt, result, timer, sends, audit,
                 callbacks, started, lastPause>>

\* QueueService.resume: queue.start() does nothing unless paused, otherwise
\* clears the flag and starts what the concurrency allows
resume ==
  /\ Listening(sd)
  /\ IF ~isPaused
       THEN UNCHANGED <<isPaused, queue, pending, pc, started, sd>>
       ELSE /\ isPaused' = FALSE
            /\ SetQState(tryToStartAnother(QState, FALSE))
  /\ UNCHANGED <<page, env, session, ingress, driver, files, sinks, responses,
                 submitted, attempt,
                 result, timer, sends, audit, callbacks, lastPause>>

\* a clear that forgets the jobs but leaves them in the queue
clearKeepsQueue ==
  /\ Listening(sd)
  /\ pc' = [m \in MsgIds |-> IF pc[m] = "queued" THEN "cleared" ELSE pc[m]]
  /\ UNCHANGED <<queue, pending, isPaused, page, sd, env, session, ingress,
                 driver, files, sinks,
                 responses, submitted, attempt, result, timer, sends, audit,
                 callbacks, started, lastPause>>

\* QueueService.clear: the waiting jobs are dropped
clear ==
  /\ Listening(sd)
  /\ queue' = <<>>
  /\ pc' = [m \in MsgIds |-> IF pc[m] = "queued" THEN "cleared" ELSE pc[m]]
  /\ UNCHANGED <<pending, isPaused, page, sd, env, session, ingress, driver,
                 files, sinks, responses,
                 submitted, attempt, result, timer, sends, audit, callbacks,
                 started, lastPause>>

\* processMessage before its loop: the attachments are written to the
\* temp-media directory; when a write throws, the paths are dropped and the
\* message goes on without media
Stage(m) ==
  /\ Alive
  /\ pc[m] = "stage"
  /\ \E failAt \in 0..Len(accepted[m].media) :
       LET staged == stageMedia(Len(accepted[m].media), failAt)
       IN /\ disk' = disk \cup {<<m, i>> : i \in 1..staged.written}
          /\ mediaFilePaths' = [mediaFilePaths EXCEPT ![m] = staged.paths]
  /\ pc' = [pc EXCEPT ![m] = "loop"]
  /\ UNCHANGED <<queue, pending, isPaused, page, sd, env, session, ingress,
                 driver, sinks, responses,
                 submitted, attempt, result, timer, sends, audit, callbacks,
                 started, lastPause>>

\* processMessage returns: its finally block deletes the files it holds paths
\* of and its locals are gone, then p-queue's next() decrements pending and
\* tries to start another job
Finish(m) ==
  /\ disk' = cleanupMediaFiles(disk, m, mediaFilePaths[m], unlinkOk)
  /\ mediaFilePaths' = [mediaFilePaths EXCEPT ![m] = 0]
  /\ result' = [result EXCEPT ![m] = NoResult]
  /\ driver' = [driver EXCEPT ![m] = NoRun]
  /\ SetQState(tryToStartAnother(
       [QState EXCEPT !.pending = pending - 1,
                      !.pc = [pc EXCEPT ![m] = "done"]], isPaused))

\* a loop that records the start of an attempt and goes on to its outcome
\* without calling sendMessage
BeginAttemptSkipsSend(m) ==
  /\ Alive
  /\ pc[m] = "loop"
  /\ IF loopGuard(attempt[m], maxRetries)
       THEN /\ attempt' = [attempt EXCEPT ![m] = attempt[m] + 1]
            /\ audit' = logAttempt(audit, m, attempt[m] + 1, SENDING,
                                   NoString)
            /\ pc' = [pc EXCEPT ![m] = "handle"]
            /\ UNCHANGED <<queue, pending, started, sd, files, result,
                           auditLost, driver>>
       ELSE /\ Finish(m)
            /\ UNCHANGED <<attempt, audit, auditLost>>
  /\ UNCHANGED <<isPaused, page, env, session, ingress, callbacksLost, noUrls,
                 unsettled, responses, submitted, timer, sends, callbacks,
                 lastPause>>

\* head of the while loop of processMessage
BeginAttempt(m) ==
  /\ Alive
  /\ pc[m] = "loop"
  /\ IF loopGuard(attempt[m], maxRetries)
       THEN \E ok \in SinkResults("audit"), hung \in SinkHangs({"audit"}) :
              /\ attempt' = [attempt EXCEPT ![m] = attempt[m] + 1]
              /\ audit' = logAttempt(audit, m, attempt[m] + 1, SENDING,
                                     NoString)
              /\ unsettled' = hung
              /\ IF awaits(hung)
                   THEN \* the SENDING write stays pending
                        /\ pc' = [pc EXCEPT ![m] = "await"]
                        /\ UNCHANGED <<result, auditLost>>
                   ELSE /\ auditLost' = logMessage(auditLost, Len(audit) + 1,
                                                   ok)
                        /\ IF logAttemptThrows(ok)
                             THEN /\ pc' = [pc EXCEPT ![m] = "handle"]
                                  /\ result' = [result EXCEPT ![m] = Thrown]
                             ELSE /\ pc' = [pc EXCEPT ![m] = "send"]
                                  /\ UNCHANGED result
              /\ UNCHANGED <<queue, pending, started, sd, files, driver>>
       ELSE /\ Finish(m)
            /\ UNCHANGED <<attempt, audit, auditLost, unsettled>>
  /\ UNCHANGED <<isPaused, page, env, session, ingress, callbacksLost, noUrls,
                 responses, submitted, timer, sends, callbacks, lastPause>>

\* the call of sendMessage: the attempt runs and leaves its result, or throws
Attempt(m) ==
  /\ Alive
  /\ pc[m] = "send"
  /\ sends' = [sends EXCEPT ![m] = sends[m] + 1]
  /\ \E d \in Scenarios(uiErrors, uiDetail) :
     \E run \in {deliverySequence(d, mediaFilePaths[m])} :
       /\ result' = [result EXCEPT ![m] = sendMessage(page, run.ui)]
       /\ driver' = [driver EXCEPT ![m] = IF page THEN run ELSE NoRun]
  /\ pc' = [pc EXCEPT ![m] = "handle"]
  /\ UNCHANGED <<queue, pending, isPaused, page, sd, env, session, ingress,
                 files, sinks,
                 responses, submitted, attempt, timer, audit, callbacks,
                 started, lastPause>>

\* the branch of processMessage that the result of the attempt takes: the
\* audit write, the screenshot upload and the callback of that branch, then
\* the backoff sleep, the inter-message sleep or, in the catch block, the
\* return
Handle(m) ==
  /\ Alive
  /\ pc[m] = "handle"
  /\ \E okLog \in SinkResults("audit"), okUp \in SinkResults("upload"),
        okCb \in SinkResults("notify") :
     \E res \in {IF logAttemptThrows(okLog) THEN Thrown ELSE result[m]} :
     \E br \in {branch(res, attempt[m], maxRetries)} :
       LET att == attempt[m]
           status == CASE br = "sent" -> SENT
                       [] br = "retry" -> RETRYING
                       [] OTHER -> FAILED
           code == CASE br = "unexpected" -> UNEXPECTED_ERROR
                     [] br = "sent" -> NoString
                     [] OTHER -> res.errorCode
       IN \E hung \in SinkHangs(IF br = "unexpected"
                                   THEN Sinks \ {"upload"} ELSE Sinks) :
          /\ unsettled' = hung
          /\ audit' = logAttempt(audit, m, att, status, code)
          /\ IF awaits(hung)
            THEN \* logAttempt, uploadScreenshots, sendCallback are awaited in
                 \* this order: the job stops at the call that stays pending
                 /\ auditLost' = IF hung = "audit" THEN auditLost
                                 ELSE logMessage(auditLost, Len(audit) + 1,
                                                 okLog)
                 /\ callbacks' = IF hung = "notify"
                                   THEN sendCallback(callbacks, m, att, status,
                                                     code)
                                   ELSE callbacks
                 /\ noUrls' = IF hung = "notify"
                                THEN uploadScreenshots(noUrls,
                                                       Len(callbacks) + 1, okUp)
                                ELSE noUrls
                 /\ pc' = [pc EXCEPT ![m] = "await"]
                 /\ UNCHANGED <<callbacksLost, timer, queue, pending, started,
                                sd, lastPause, result, files, driver>>
            ELSE
                 /\ auditLost' = logMessage(auditLost, Len(audit) + 1, okLog)
                 /\ callbacks' = sendCallback(callbacks, m, att, status, code)
                 /\ callbacksLost' = postCallback(callbacksLost, Len(callbacks) + 1,
                                                  okCb)
                 /\ noUrls' = uploadScreenshots(noUrls, Len(callbacks) + 1,
                                                okUp /\ br # "unexpected")
                 /\ IF br = "unexpected"
                      THEN \* catch: FAILED / UNEXPECTED_ERROR, return without a pause
                           /\ lastPause' = 0
                           /\ Finish(m)
                           /\ UNCHANGED timer
                      ELSE IF br = "retry"
                        THEN /\ pc' = [pc EXCEPT ![m] = "backoff"]
                             /\ timer' = [timer EXCEPT ![m] = retryDelay(att)]
                             /\ UNCHANGED <<queue, pending, started, sd,
                                            lastPause,
                                            result, files, driver>>
                        ELSE \* SENT, or FAILED with no retry: inter-message pause
                             /\ lastPause' = 0
                             /\ pc' = [pc EXCEPT ![m] = "delay"]
                             /\ \E u \in 0..(RandDen - 1) :
                                  timer' = [timer EXCEPT ![m] =
                                              randomDelay(MinDelay, MaxDelay, u)]
                             /\ UNCHANGED <<queue, pending, started, sd,
                                            result,
                                            files, driver>>
  /\ UNCHANGED <<isPaused, page, env, session, ingress, responses, submitted,
                 attempt, sends>>

\* a backoff sleep that a paused queue holds until resume
WakeBackoffUnlessPaused(m) ==
  /\ Alive
  /\ ~isPaused
  /\ pc[m] = "backoff"
  /\ pc' = [pc EXCEPT ![m] = "loop"]
  /\ timer' = [timer EXCEPT ![m] = 0]
  /\ UNCHANGED <<queue, pending, isPaused, page, sd, env, session, ingress,
                 driver, files, sinks, responses, submitted, attempt, result,
                 sends, audit, callbacks, started, lastPause>>

\* the backoff sleep ends: continue with the next iteration
WakeBackoff(m) ==
  /\ Alive
  /\ pc[m] = "backoff"
  /\ pc' = [pc EXCEPT ![m] = "loop"]
  /\ timer' = [timer EXCEPT ![m] = 0]
  /\ UNCHANGED <<queue, pending, isPaused, page, sd, env, session, ingress,
                 driver, files, sinks,
                 responses, submitted, attempt, result, sends, audit,
                 callbacks, started, lastPause>>

\* the inter-message sleep ends: processMessage returns
WakeDelay(m) ==
  /\ Alive
  /\ pc[m] = "delay"
  /\ lastPause' = timer[m]
  /\ timer' = [timer EXCEPT ![m] = 0]
  /\ Finish(m)
  /\ UNCHANGED <<isPaused, page, env, session, ingress, sinks, responses,
                 submitted, attempt,
                 sends, audit, callbacks>>

\* a shutdown that closes the browser without waiting for the queue
ShutdownNoDrain ==
  /\ sd = "none"
  /\ isPaused' = TRUE
  /\ sd' = "closing"
  /\ UNCHANGED <<queue, pending, page, env, session, ingress, driver, files,
                 sinks, responses,
                 submitted, pc, attempt, result, timer, sends, audit,
                 callbacks, started, lastPause>>

\* main.shutdown up to the call of OpenPhoneService.close: pause, then
\* waitForEmpty; onIdle returns at once when nothing waits and nothing runs
\* and close() is entered, otherwise shutdown waits for the 'idle' event
Shutdown ==
  /\ sd = "none"
  /\ isPaused' = TRUE
  /\ sd' = IF pending = 0 /\ Len(queue) = 0 THEN "closing" ELSE "draining"
  /\ UNCHANGED <<queue, pending, page, env, session, ingress, driver, files,
                 sinks, responses,
                 submitted, pc, attempt, result, timer, sends, audit,
                 callbacks, started, lastPause>>

\* OpenPhoneService.close completes: the page is closed and the field set to
\* null
ClosePage ==
  /\ sd = "closing"
  /\ page' = FALSE
  /\ sd' = "closed"
  /\ UNCHANGED <<queue, pending, isPaused, env, session, ingress, driver,
                 files, sinks, responses,
                 submitted, pc, attempt, result, timer, sends, audit,
                 callbacks, started, lastPause>>

\* process.exit(0) at the end of main.shutdown
Exit ==
  /\ sd = "closed"
  /\ sd' = "exited"
  /\ UNCHANGED <<queue, pending, isPaused, page, env, session, ingress,
                 driver, files, sinks,
                 responses, submitted, pc, attempt, result, timer, sends,
                 audit, callbacks, started, lastPause>>

\* the next step of the processMessage call of message m
ProcessStep(m) ==
  \/ Stage(m)
  \/ BeginAttempt(m)
  \/ Attempt(m)
  \/ Handle(m)
  \/ WakeBackoff(m)
  \/ WakeDelay(m)

Worker ==
  \E m \in MsgIds :
    \/ Stage(m)
    \/ BeginAttempt(m)
    \/ Attempt(m)
    \/ Handle(m)
    \/ WakeBackoff(m)
    \/ WakeDelay(m)

Next ==
  \/ initialize
  \/ addMessage
  \/ pause
  \/ resume
  \/ clear
  \/ \E m \in MsgIds : Stage(m)
  \/ \E m \in MsgIds : BeginAttempt(m)
  \/ \E m \in MsgIds : Attempt(m)
  \/ \E m \in MsgIds : Handle(m)
  \/ \E m \in MsgIds : WakeBackoff(m)
  \/ \E m \in MsgIds : WakeDelay(m)
  \/ Shutdown
  \/ ClosePage
  \/ Exit

Spec == Init /\ [][Next]_vars

DeepSpec == DeepInit /\ [][Next]_vars

MediaSpec == MediaInit /\ [][Next]_vars

SinkSpec == SinkInit /\ [][Next]_vars

QueueSpec == QueueInit /\ [][Next]_vars

HangSpec == HangInit /\ [][Next]_vars

\* the HTTP layer in front of the engine: both webhook routes called by any
\* caller, and the processing of what they let through
IngressNext ==
  \/ initialize
  \/ webhookSend
  \/ webhookSendBatch
  \/ \E m \in MsgIds : Stage(m)
  \/ \E m \in MsgIds : BeginAttempt(m)
  \/ \E m \in MsgIds : Attempt(m)
  \/ \E m \in MsgIds : Handle(m)
  \/ \E m \in MsgIds : WakeDelay(m)

IngressSpec == IngressInit /\ [][IngressNext]_vars

\* startup, one message, and shutdown
LoginNext ==
  \/ initialize
  \/ addMessage
  \/ \E m \in MsgIds : Stage(m)
  \/ \E m \in MsgIds : BeginAttempt(m)
  \/ \E m \in MsgIds : Attempt(m)
  \/ \E m \in MsgIds : Handle(m)
  \/ \E m \in MsgIds : WakeDelay(m)
  \/ Shutdown
  \/ ClosePage
  \/ Exit

LoginSpec == LoginInit /\ [][LoginNext]_vars

\* one sendMessage call on the session, before or after its close
ResultNext ==
  \/ initialize
  \/ addMessage
  \/ resume
  \/ \E m \in MsgIds : Stage(m)
  \/ \E m \in MsgIds : BeginAttempt(m)
  \/ \E m \in MsgIds : Attempt(m)
  \/ \E m \in MsgIds : Handle(m)
  \/ \E m \in MsgIds : WakeDelay(m)
  \/ Shutdown
  \/ ClosePage
  \/ Exit

ResultSpec == ResultInit /\ [][ResultNext]_vars

\* one processMessage call from submission to return
DriverNext ==
  \/ initialize
  \/ addMessage
  \/ \E m \in MsgIds : ProcessStep(m)

DriverSpec == DriverInit /\ [][DriverNext]_vars

\* the event loop runs every timer and continuation that is ready
LiveSpec == DeepInit /\ [][Next]_vars /\ WF_vars(Worker)

QueueLiveSpec == PairInit /\ [][Next]_vars /\ WF_vars(Worker)

\* the event loop also runs the continuation of shutdown when it is ready
ShutdownLiveSpec ==
  /\ PairInit
  /\ [][Next]_vars
  /\ WF_vars(Worker)
  /\ WF_vars(ClosePage)
  /\ WF_vars(Exit)

\* ------------------------------------------------------- helpers of claims
IsTerminal(r) == r.status \in {SENT, FAILED}

RecordsOf(log, m) == SelectSeq(log, LAMBDA r : r.msg = m)

TerminalsOf(log, m) == SelectSeq(log, LAMBDA r : r.msg = m /\ IsTerminal(r))

HasRecord(log, m, status, att) ==
  \E i \in 1..Len(log) :
    log[i].msg = m /\ log[i].status = status /\ log[i].attempt = att

Running(m) ==
  pc[m] \in {"stage", "loop", "send", "handle", "backoff", "await", "delay"}

TypeOK ==
  /\ pending \in 0..MaxMessages
  /\ isPaused \in BOOLEAN
  /\ page \in BOOLEAN
  /\ sd \in {"starting", "startFailed", "none", "draining", "closing",
            "closed", "exited"}
  /\ submitted \in 0..MaxMessages
  /\ \A m \in MsgIds :
       pc[m] \in {"none", "queued", "stage", "loop", "send", "handle",
                  "backoff", "await", "delay", "done", "cleared"}

\* ------------------------------------------------------------------ claims

\* C2: for every message and every sequence of attempt outcomes, the number
\* of sendMessage calls made for it never exceeds the configured maxRetries.
C2_AttemptsBounded ==
  \A m \in MsgIds : sends[m] <= maxRetries /\ attempt[m] <= maxRetries

\* a message has used every attempt the configuration allows, after retries
C2_Witness ==
  \E m \in MsgIds :
    /\ maxRetries = DefaultMaxRetries
    /\ sends[m] = maxRetries
    /\ HasRecord(audit, m, RETRYING, maxRetries - 1)

\* C3: the in-flight counter queue.pending is 0 or 1 in every reachable
\* state, under any interleaving of addMessage, pause, resume and clear with
\* the worker; it counts exactly the messages being processed.
C3_SingleInFlight ==
  /\ pending \in {0, 1}
  /\ pending = Cardinality({m \in MsgIds : Running(m)})

\* one message is in flight while another waits, after a pause and a resume
C3_Witness ==
  /\ pending = 1
  /\ Len(queue) >= 1
  /\ \E m \in MsgIds : pc[m] = "backoff"

\* C10: messages are started in submission (FIFO) order; the first attempt
\* of a message never begins before every message started earlier has
\* reached a terminal state; no other message is in processing while one
\* waits in retry backoff.
C10_FifoSequential ==
  /\ \A i, j \in 1..Len(started) : i < j => started[i] < started[j]
  /\ \A a, b \in 1..Len(audit) :
       (/\ a < b
        /\ audit[a].msg # audit[b].msg
        /\ audit[b].status = SENDING
        /\ audit[b].attempt = 1)
       => \E t \in 1..(b - 1) :
            audit[t].msg = audit[a].msg /\ IsTerminal(audit[t])
  /\ \A m \in MsgIds :
       pc[m] = "backoff" => \A n \in MsgIds \ {m} : ~Running(n)

\* the second message is attempted after the first one went through a retry
C10_Witness ==
  /\ Len(started) >= 2
  /\ attempt[started[2]] >= 1
  /\ HasRecord(audit, started[1], RETRYING, 1)

\* C4: after a failed attempt n, processMessage records RETRYING and makes
\* attempt n+1 if and only if the failure is classified retryable and
\* n < maxRetries; otherwise it records FAILED and makes no further attempt;
\* after a successful attempt it records SENT and makes no further attempt.
C4_RetryDecision ==
  \A m \in MsgIds :
    \E recs \in {RecordsOf(audit, m)} :
    LET n == attempt[m]
        res == result[m]
        retryable == isRetryableError([message |-> res.errorCode])
    IN /\ pc[m] \in {"backoff", "delay"} =>
            /\ recs[Len(recs)].attempt = n
            /\ res.success =>
                 recs[Len(recs)].status = SENT /\ pc[m] = "delay"
            /\ ~res.success =>
                 IF retryable /\ n < maxRetries
                   THEN recs[Len(recs)].status = RETRYING /\ pc[m] = "backoff"
                   ELSE recs[Len(recs)].status = FAILED /\ pc[m] = "delay"
       /\ \A i \in 1..Len(recs) :
            /\ recs[i].status = RETRYING =>
                 \/ /\ i = Len(recs)
                    /\ pc[m] \in {"backoff", "loop"}
                    /\ n = recs[i].attempt
                 \/ /\ i < Len(recs)
                    /\ recs[i + 1].status = SENDING
                    /\ recs[i + 1].attempt = recs[i].attempt + 1
            /\ IsTerminal(recs[i]) =>
                 /\ i = Len(recs)
                 /\ sends[m] = recs[i].attempt
                 /\ n = recs[i].attempt
                 /\ pc[m] \in {"delay", "done"}

\* every attempt the configuration allows failed retryably: the last one is
\* recorded FAILED, the earlier ones RETRYING
C4_Witness ==
  \E m \in MsgIds :
    /\ maxRetries = DefaultMaxRetries
    /\ pc[m] = "delay"
    /\ attempt[m] = maxRetries
    /\ ~result[m].success
    /\ isRetryableError([message |-> result[m].errorCode])
    /\ HasRecord(audit, m, RETRYING, 1)
    /\ HasRecord(audit, m, FAILED, maxRetries)

\* C6: when attempt k fails retryably and a retry follows, the wait before
\* attempt k+1 is min(1000 * 2^k, 30000) ms: 2000 after attempt 1, 4000 after
\* attempt 2, non-decreasing in k and never above 30000.
C6_BackoffDelay ==
  \A m \in MsgIds :
    pc[m] = "backoff" =>
      LET k == attempt[m]
          expected(j) == IF 1000 * (2 ^ j) < 30000 THEN 1000 * (2 ^ j)
                                                    ELSE 30000
      IN /\ timer[m] = expected(k)
         /\ k = 1 => timer[m] = 2000
         /\ k = 2 => timer[m] = 4000
         /\ timer[m] <= 30000
         /\ \A j \in 1..(k - 1) : expected(j) <= timer[m]

\* a message waits the capped 30000 ms after its fifth attempt
C6_Witness ==
  \E m \in MsgIds :
    pc[m] = "backoff" /\ attempt[m] = 5 /\ timer[m] = 30000

\* C8: an exception raised out of a delivery attempt is terminal: a FAILED
\* record and a FAILED callback with code UNEXPECTED_ERROR are emitted for
\* the current attempt number and no further attempt is made, even when
\* attempt < maxRetries.
C8_UnexpectedIsTerminal ==
  /\ [](\A i \in 1..Len(audit) :
          audit[i].code = UNEXPECTED_ERROR =>
            LET m == audit[i].msg
            IN /\ audit[i].status = FAILED
               /\ pc[m] = "done"
               /\ sends[m] = audit[i].attempt
               /\ attempt[m] = audit[i].attempt
               /\ \A j \in (i + 1)..Len(audit) : audit[j].msg # m
               /\ RecordsOf(callbacks, m)[Len(RecordsOf(callbacks, m))] =
                    audit[i])
  /\ [][\A m \in MsgIds :
          (pc[m] = "handle" /\ result[m].threw /\ pc'[m] # "handle") =>
            LET rec == [msg |-> m, attempt |-> attempt[m], status |-> FAILED,
                        code |-> UNEXPECTED_ERROR]
            IN /\ pc'[m] = "done"
               /\ audit' = Append(audit, rec)
               /\ callbacks' = Append(callbacks, rec)
               /\ attempt'[m] = attempt[m]
               /\ sends'[m] = sends[m]]_vars

\* sendMessage threw on the first of three allowed attempts and the message
\* ended there
C8_Witness ==
  \E i \in 1..Len(audit) :
    /\ audit[i].code = UNEXPECTED_ERROR
    /\ audit[i].attempt = 1
    /\ maxRetries = DefaultMaxRetries
    /\ pc[audit[i].msg] = "done"

\* C9: when the verifier finds an error/alert element after the send on
\* attempt 1, the message goes to FAILED with no retry: exactly one delivery
\* attempt is made and exactly one Notifier call, of status failed, is
\* emitted, for every maxRetries >= 1.
C9_RejectionNoRetry ==
  \A m \in MsgIds :
    /\ (/\ pc[m] \in {"backoff", "delay"}
        /\ attempt[m] = 1
        /\ ~result[m].success
        /\ result[m].error = ErrVerification.message)
       => /\ pc[m] = "delay"
          /\ HasRecord(audit, m, FAILED, 1)
    /\ HasRecord(audit, m, FAILED, 1) =>
         /\ sends[m] = 1
         /\ attempt[m] = 1
         /\ pc[m] \in {"delay", "done"}
         /\ Len(RecordsOf(callbacks, m)) = 1
         /\ RecordsOf(callbacks, m)[1].status = FAILED
         /\ RecordsOf(callbacks, m)[1].attempt = 1

\* the first of three allowed attempts met an alert element and the message
\* is in its closing pause
C9_Witness ==
  \E m \in MsgIds :
    /\ maxRetries = DefaultMaxRetries
    /\ pc[m] = "delay"
    /\ attempt[m] = 1
    /\ result[m].error = ErrVerification.message
    /\ Len(RecordsOf(callbacks, m)) = 1

\* C5: a delivery attempt that fails with a network-class error (timeout,
\* connection reset or closed, DNS failure) is classified retryable and is
\* retried with backoff whenever attempts remain (attempt < maxRetries).
C5_NetworkErrorsRetried ==
  \A m \in MsgIds :
    (/\ pc[m] \in {"backoff", "delay"}
     /\ ~result[m].success
     /\ result[m].error \in {StepError(k).message : k \in NetworkErrors}
     /\ attempt[m] < maxRetries)
    => /\ pc[m] = "backoff"
       /\ HasRecord(audit, m, RETRYING, attempt[m])

\* C7: after every terminal state of a message (SENT, FAILED by rejection or
\* exhausted retries, FAILED by an unexpected exception) a randomized pause
\* within [minDelay, maxDelay] elapses before the queue starts the next
\* message.
C7_PauseBeforeNext ==
  [][\A m \in MsgIds :
       (pc[m] = "queued" /\ pc'[m] = "stage") =>
         \/ lastPause' = -1
         \/ lastPause' >= MinDelay /\ lastPause' <= MaxDelay]_vars

\* C1 as claimed: every request accepted by addMessage gets exactly one
\* terminal audit record and exactly one terminal Notifier callback; stated
\* for the messages that can no longer be processed (finished or discarded).
C1_EveryRequestReported ==
  \A m \in MsgIds :
    pc[m] \in {"done", "cleared"} =>
      /\ Len(TerminalsOf(audit, m)) = 1
      /\ Len(TerminalsOf(callbacks, m)) = 1

\* C1 as amended: for every accepted request whose first delivery attempt
\* begins, exactly one terminal audit write (sent or failed) and exactly one
\* terminal Notifier call are eventually issued, also when every attempt
\* fails, unless the process exits first; no message ever gets more than one
\* of either.
C1_AttemptedRequestReported ==
  /\ [](\A m \in MsgIds :
          /\ Len(TerminalsOf(audit, m)) <= 1
          /\ Len(TerminalsOf(callbacks, m)) <= 1
          /\ (pc[m] = "done" /\ attempt[m] >= 1) =>
               /\ Len(TerminalsOf(audit, m)) = 1
               /\ Len(TerminalsOf(callbacks, m)) = 1
               /\ TerminalsOf(audit, m)[1].status =
                    TerminalsOf(callbacks, m)[1].status)
  /\ \A m \in MsgIds :
       (attempt[m] >= 1) ~> (pc[m] = "done" \/ sd = "exited")

\* a message whose every attempt failed has finished with one FAILED record
\* and one FAILED callback
C1_Witness ==
  \E m \in MsgIds :
    /\ pc[m] = "done"
    /\ maxRetries = DefaultMaxRetries
    /\ sends[m] = maxRetries
    /\ Len(TerminalsOf(audit, m)) = 1
    /\ TerminalsOf(audit, m)[1].status = FAILED
    /\ Len(TerminalsOf(callbacks, m)) = 1

\* C11: for every message with attachments, once processMessage has ended
\* (after SENT or FAILED, by any path) none of the temporary files staged
\* for it remains on the filesystem, provided file deletion itself succeeds;
\* this covers a staging step that fails after some of the attachments were
\* already written.
C11_StagedFilesRemoved ==
  \A m \in MsgIds :
    (pc[m] = "done" /\ Len(TerminalsOf(audit, m)) = 1 /\ unlinkOk)
      => \A i \in 1..media : <<m, i>> \notin disk

\* C12: a failure of the audit write, of an artifact upload or of the
\* notification POST never changes a message's attempt sequence: whatever
\* the sinks do, every allowed attempt goes on to sendMessage, the branch
\* taken after it (sent, retry, failed) is the one its result dictates, the
\* record and the callback carry that status, and no sink failure reaches
\* the catch block of processMessage.
C12_SinkFailuresIgnored ==
  [][\A m \in MsgIds :
       /\ (pc[m] = "loop" /\ pc'[m] # "loop"
           /\ loopGuard(attempt[m], maxRetries))
          => /\ pc'[m] = "send"
             /\ attempt'[m] = attempt[m] + 1
       /\ (pc[m] = "handle" /\ pc'[m] # "handle")
          => LET br == branch(result[m], attempt[m], maxRetries)
                 status == CASE br = "sent" -> SENT
                             [] br = "retry" -> RETRYING
                             [] OTHER -> FAILED
             IN /\ pc'[m] = CASE br = "retry" -> "backoff"
                              [] br = "unexpected" -> "done"
                              [] OTHER -> "delay"
                /\ audit'[Len(audit')].status = status
                /\ callbacks'[Len(callbacks')].status = status
                /\ (audit'[Len(audit')].code = UNEXPECTED_ERROR)
                     = result[m].threw
                /\ attempt'[m] = attempt[m]
                /\ sends'[m] = sends[m]]_vars

\* a message was sent on its third attempt although the audit store lost
\* every row of it
C12_Witness ==
  \E m \in MsgIds :
    /\ pc[m] = "done"
    /\ sends[m] = DefaultMaxRetries
    /\ TerminalsOf(audit, m)[1].status = SENT
    /\ Len(audit) >= 2 * DefaultMaxRetries
    /\ auditLost = 1..Len(audit)

\* a message failed after a retry although no callback of it arrived and no
\* screenshot was uploaded
C12_WitnessNotifier ==
  \E m \in MsgIds :
    /\ pc[m] = "done"
    /\ sends[m] = DefaultMaxRetries
    /\ TerminalsOf(callbacks, m)[1].status = FAILED
    /\ callbacksLost = 1..Len(callbacks)
    /\ noUrls = 1..Len(callbacks)

\* C13 as claimed: the number of records appended to the audit store for a
\* message equals the number of delivery attempts made for it; a message
\* that succeeds on its first attempt yields exactly one record.
C13_OneRecordPerAttempt ==
  \A m \in MsgIds :
    pc[m] \in {"delay", "done"} =>
      Len(StoredOf(audit, auditLost, m)) = sends[m]

\* C13 as amended: when every audit write succeeds, each delivery attempt
\* appends two records, a 'sending' record when it begins and one outcome
\* record (retrying, sent or failed) when it ends, both with the attempt's
\* number; a message that succeeds on its first attempt yields (sending, 1),
\* (sent, 1), and one that times out twice and then succeeds yields six
\* records.
C13_TwoRecordsPerAttempt ==
  \A m \in MsgIds :
    LET rows == StoredOf(audit, auditLost, m)
        open == IF pc[m] \in {"send", "handle"} THEN 1 ELSE 0
    IN /\ Len(rows) = 2 * attempt[m] - open
       /\ attempt[m] = sends[m] + (IF pc[m] = "send" THEN 1 ELSE 0)
       /\ \A i \in 1..Len(rows) :
            /\ rows[i].attempt = (i + 1) \div 2
            /\ (i % 2 = 1) = (rows[i].status = SENDING)
       /\ (pc[m] \in {"delay", "done"} /\ sends[m] = 1
           /\ rows[Len(rows)].status = SENT)
          => /\ Len(rows) = 2
             /\ rows[1].status = SENDING /\ rows[1].attempt = 1
             /\ rows[2].status = SENT /\ rows[2].attempt = 1

\* a message timed out twice and was sent on the third attempt: six records
C13_Witness ==
  \E m \in MsgIds :
    LET rows == StoredOf(audit, auditLost, m)
    IN /\ pc[m] = "done"
       /\ Len(rows) = 6
       /\ [i \in 1..6 |-> rows[i].status] =
            <<SENDING, RETRYING, SENDING, RETRYING, SENDING, SENT>>
       /\ [i \in 1..6 |-> rows[i].attempt] = <<1, 1, 2, 2, 3, 3>>

\* C14: the Notifier is called exactly once per delivery attempt, carrying
\* that attempt's number and its resulting status (retrying, sent or
\* failed); attempts 1 and 2 timing out and attempt 3 succeeding with
\* maxRetries = 3 produce exactly the calls (retrying, 1), (retrying, 2),
\* (sent, 3), in that order.
C14_OneCallbackPerAttempt ==
  \A m \in MsgIds :
    \E cbs \in {RecordsOf(callbacks, m)}, rows \in {RecordsOf(audit, m)} :
       /\ Len(cbs) = sends[m] - (IF pc[m] = "handle" THEN 1 ELSE 0)
       /\ \A i \in 1..Len(cbs) :
            /\ cbs[i].attempt = i
            /\ cbs[i].status \in {RETRYING, SENT, FAILED}
            /\ cbs[i].status = rows[2 * i].status
            /\ i < Len(cbs) => cbs[i].status = RETRYING
       /\ (/\ maxRetries = 3
           /\ pc[m] \in {"delay", "done"}
           /\ sends[m] = 3
           /\ rows[Len(rows)].status = SENT)
          => [i \in 1..Len(cbs) |-> <<cbs[i].status, cbs[i].attempt>>] =
               << <<RETRYING, 1>>, <<RETRYING, 2>>, <<SENT, 3>> >>

\* attempts 1 and 2 timed out and attempt 3 succeeded: three calls
C14_Witness ==
  \E m \in MsgIds :
    /\ maxRetries = 3
    /\ pc[m] = "done"
    /\ [i \in 1..Len(RecordsOf(callbacks, m)) |->
          <<RecordsOf(callbacks, m)[i].status,
            RecordsOf(callbacks, m)[i].attempt>>] =
         << <<RETRYING, 1>>, <<RETRYING, 2>>, <<SENT, 3>> >>

\* C15: while the queue is paused no waiting message is dequeued (no first
\* attempt of a waiting message begins), and pause() never interrupts or
\* cancels the message in flight: the step that pauses leaves its processing
\* where it was, and its next step stays possible while the queue is paused.
C15_PauseBlocksDequeueOnly ==
  /\ [](\A m \in MsgIds :
          /\ pc[m] = "queued" =>
               /\ attempt[m] = 0
               /\ Len(RecordsOf(audit, m)) = 0
               /\ isPaused \/ pending = Concurrency
          /\ (Running(m) /\ Alive) => ENABLED ProcessStep(m))
  /\ [][/\ \A m \in MsgIds :
             (pc[m] = "queued" /\ pc'[m] # "queued") =>
               \/ pc'[m] = "cleared"
               \/ pc'[m] = "stage" /\ ~isPaused'
        /\ (~isPaused /\ isPaused') =>
             /\ pc' = pc
             /\ attempt' = attempt
             /\ result' = result
             /\ timer' = timer
             /\ pending' = pending
             /\ queue' = queue]_vars

\* the queue is paused and idle: the first message finished while the second
\* one waits
C15_Witness ==
  /\ isPaused
  /\ sd = "none"
  /\ pending = 0
  /\ \E m, n \in MsgIds :
       /\ pc[m] = "done" /\ attempt[m] >= 1
       /\ pc[n] = "queued"

\* C16: clear() discards every not-yet-started message, so that none of them
\* is ever attempted, recorded or reported afterwards, and leaves the
\* message in flight running to its terminal state; messages submitted after
\* clear() wait in the queue and are processed normally.
C16_ClearDiscardsWaiting ==
  /\ [](\A m \in MsgIds :
          /\ pc[m] = "cleared" =>
               /\ attempt[m] = 0
               /\ sends[m] = 0
               /\ Len(RecordsOf(audit, m)) = 0
               /\ Len(RecordsOf(callbacks, m)) = 0
               /\ \A i \in 1..Len(started) : started[i] # m
               /\ \A i \in 1..Len(queue) : queue[i] # m
          /\ pc[m] = "queued" => \E i \in 1..Len(queue) : queue[i] = m
          /\ (Running(m) /\ Alive) => ENABLED ProcessStep(m))
  /\ [][\A m \in MsgIds :
          /\ pc[m] = "cleared" => pc'[m] = "cleared"
          /\ (pc[m] = "queued" /\ pc'[m] = "cleared") =>
               /\ queue' = <<>>
               /\ pending' = pending
               /\ \A n \in MsgIds :
                    /\ pc[n] = "queued" => pc'[n] = "cleared"
                    /\ pc[n] # "queued" =>
                         /\ pc'[n] = pc[n]
                         /\ attempt'[n] = attempt[n]
                         /\ result'[n] = result[n]
                         /\ timer'[n] = timer[n]]_vars

\* a message waiting behind the one in flight was cleared, and the one in
\* flight went on to its terminal state
C16_Witness ==
  \E m, n \in MsgIds :
    /\ m < n
    /\ pc[n] = "cleared"
    /\ pc[m] = "delay"
    /\ Len(TerminalsOf(audit, m)) = 1

\* a message submitted after a clear() that discarded an earlier one was
\* processed
C16_WitnessLater ==
  \E m, n \in MsgIds :
    /\ m < n
    /\ pc[m] = "cleared"
    /\ pc[n] = "done"
    /\ Len(TerminalsOf(audit, n)) = 1

\* C17: after resume() on a paused queue dequeuing is re-enabled: the head
\* of the queue is started at once when nothing is in flight, every message
\* still waiting is eventually started, messages leave the queue from its
\* head only (FIFO), assuming no later pause or clear and that each
\* message's processing terminates.
C17_ResumeRestartsDequeue ==
  /\ [][/\ (isPaused /\ ~isPaused') =>
             IF pending = 0 /\ Len(queue) > 0
               THEN /\ pc'[Head(queue)] = "stage"
                    /\ queue' = Tail(queue)
                    /\ pending' = 1
                    /\ started' = Append(started, Head(queue))
               ELSE queue' = queue /\ pending' = pending /\ pc' = pc
        /\ \A m \in MsgIds :
             (pc[m] = "queued" /\ pc'[m] = "stage") =>
               /\ m = Head(queue)
               /\ queue' = Tail(queue)]_vars
  /\ \A m \in MsgIds :
       (pc[m] = "queued" /\ ~isPaused)
         ~> \/ pc[m] \in {"stage", "loop", "send", "handle", "backoff",
                          "delay", "done"}
            \/ isPaused
            \/ pc[m] = "cleared"
            \/ ~Alive

\* the shutdown paused the queue while a message was in flight and another
\* waited; after a resume the waiting one was started when the first ended
C17_Witness ==
  /\ sd = "draining"
  /\ ~isPaused
  /\ Len(started) >= 2
  /\ pc[started[1]] = "done"
  /\ pc[started[2]] = "delay"

\* C18: in the shutdown sequence (pause, await drain, close the browser)
\* waitForEmpty returns, and OpenPhoneService.close is entered, only in a
\* state where the queue is empty and no message is being processed; the
\* page is closed by that sequence only, and it is still open while the
\* shutdown waits for the queue.
C18_CloseOnlyWhenIdle ==
  /\ [](sd \in {"none", "draining", "closing"} => page)
  /\ [][/\ (sd # "closing" /\ sd' = "closing") =>
             /\ pending' = 0
             /\ Len(queue') = 0
             /\ \A m \in MsgIds :
                  pc'[m] \in {"none", "done", "cleared"}
        /\ (page /\ ~page') => sd = "closing" /\ sd' = "closed"]_vars

\* the shutdown waited for the message in flight and goes on to close the
\* browser once the queue is idle
C18_Witness ==
  /\ sd = "closing"
  /\ page
  /\ isPaused
  /\ pending = 0
  /\ \E m \in MsgIds : pc[m] = "done" /\ attempt[m] = DefaultMaxRetries

\* C19: addMessage appends the message to the tail of the queue and returns
\* without waiting for any delivery attempt of it to finish: the response of
\* /webhook/send is only the 'accepted into queue' acknowledgement, issued
\* before any sendMessage call for the message, and the outcome comes later
\* through the Notifier.
C19_SubmitIsFireAndForget ==
  /\ [](/\ Len(responses) = submitted
        /\ \A i \in 1..Len(responses) :
             responses[i] = [msg |-> i, success |-> TRUE,
                             message |-> "Message added to queue"]
        /\ \A i \in 1..Len(callbacks) : callbacks[i].msg <= Len(responses))
  /\ [][(submitted' # submitted) =>
          LET m == submitted'
          IN /\ m = submitted + 1
             /\ Len(responses') = Len(responses) + 1
             /\ sends'[m] = 0
             /\ Len(RecordsOf(callbacks', m)) = 0
             /\ \A i \in 1..Len(audit') :
                  audit'[i].msg = m => audit'[i].status = SENDING
             /\ IF pc'[m] = "queued"
                  THEN /\ queue' = Append(queue, m)
                       /\ started' = started
                  ELSE /\ pc'[m] = "stage"
                       /\ queue = <<>>
                       /\ queue' = <<>>
                       /\ started' = Append(started, m)
             /\ \A n \in MsgIds \ {m} : pc'[n] = pc[n]]_vars

\* the second message was acknowledged while the first one was in flight,
\* and its outcome was reported afterwards
C19_Witness ==
  /\ Len(responses) = 2
  /\ Len(started) = 2
  /\ pc[started[2]] = "done"
  /\ Len(TerminalsOf(callbacks, started[2])) = 1

\* C20: if session initialization fails (login failure, unreachable service,
\* second factor not completed in the window) the process never accepts a
\* message: until initialize() has completed there is no queue activity and
\* no HTTP response, a failed initialize() ends the process, and a message
\* is accepted only by a process whose initialize() succeeded.
C20_NoAcceptWithoutSession ==
  /\ [](sd \in {"starting", "startFailed"} =>
          /\ ~page
          /\ submitted = 0
          /\ responses = <<>>
          /\ queue = <<>>
          /\ pending = 0
          /\ \A m \in MsgIds : pc[m] = "none")
  /\ [][/\ sd # "startFailed"
        /\ (sd = "starting") => sd' \in {"none", "startFailed"}
        /\ (sd = "starting" /\ sd' = "none") => page'
        /\ (submitted' # submitted) =>
             sd \in {"none", "draining", "closing", "closed"}]_vars

\* initialize() failed and the process ended without having accepted anything
C20_Witness ==
  /\ sd = "startFailed"
  /\ submitted = 0
  /\ ~page

\* --------------------------------------------------- claims on the ingress
\* the payload of the i-th request to POST /webhook/send
SendPayload(i) == requests[i].messages[1]

\* the requests to POST /webhook/send whose payload has a phone in the
\* accepted format and a text
SendRequests ==
  {i \in 1..Len(requests) :
     /\ requests[i].route = "send"
     /\ SendPayload(i).phone # NoString
     /\ SendPayload(i).text # NoString
     /\ phoneRegexTest(stripSeparators(SendPayload(i).phone))}

\* an attachment with all three fields, a supported type and padded base64
WellFormed(file) ==
  /\ file.filename # ""
  /\ file.mimeType \in SUPPORTED_MIME_TYPES
  /\ file.data.clean
  /\ file.data.len > 0
  /\ file.data.len % 4 = 0
  /\ file.data.pad <= 2

RECURSIVE DecodedTotal(_)
\* the aggregate decoded size of a list of attachments
DecodedTotal(mediaFiles) ==
  IF mediaFiles = <<>> THEN 0
  ELSE decodedSize(Head(mediaFiles).data) + DecodedTotal(Tail(mediaFiles))

\* which of the four conditions of media validation a list of attachments
\* meets
MediaCondition(mediaFiles) ==
  IF Len(mediaFiles) > QUO_MAX_ATTACHMENTS THEN "count"
  ELSE IF \E i \in 1..Len(mediaFiles) :
            mediaFiles[i].mimeType \notin SUPPORTED_MIME_TYPES THEN "mime"
  ELSE IF \E i \in 1..Len(mediaFiles) :
            ~mediaFiles[i].data.clean \/ mediaFiles[i].data.pad > 2
         THEN "base64"
  ELSE IF \A i \in 1..Len(mediaFiles) : WellFormed(mediaFiles[i])
         THEN (IF DecodedTotal(mediaFiles) > QUO_MAX_TOTAL_SIZE
                 THEN "size" ELSE "none")
  ELSE "other"

\* C21: every message that reaches the Dispatch Queue, through /webhook/send
\* or through /webhook/send-batch, has passed the ingress validation of
\* shape, recipient format and media constraints.
C21_QueuedOnlyAfterValidation ==
  \A m \in MsgIds :
    pc[m] # "none" => webhookSendRejection(accepted[m]).success

\* C22: a request to /webhook/send carrying more than 10 attachments is
\* rejected with error_code TOO_MANY_ATTACHMENTS, its message never reaches
\* the queue and no AttemptRecord is created for it.
C22_TooManyAttachmentsCode ==
  \A i \in SendRequests :
    Len(SendPayload(i).media) > QUO_MAX_ATTACHMENTS =>
      /\ ~responses[i].success
      /\ submitted = 0
      /\ audit = <<>>
      /\ responses[i].error_code = "TOO_MANY_ATTACHMENTS"

\* C23: media validation rejects each of the four conditions (more than 10
\* attachments, aggregate decoded size above 5 MiB, unsupported MIME type,
\* malformed base64), and the error code of the rejection differs from the
\* code the route gives to a payload that meets another of the four.
C23_DistinctMediaErrorCodes ==
  \A i \in SendRequests :
    \E c \in {MediaCondition(SendPayload(i).media)} :
      c \in {"count", "size", "mime", "base64"} =>
        /\ ~responses[i].success
        /\ \A other \in Payloads :
             MediaCondition(other.media)
                 \in {"count", "size", "mime", "base64"} \ {c}
               => webhookSendRejection(other).error_code
                    # responses[i].error_code

\* C24: for 1 to 10 well-formed attachments of supported type,
\* validateMediaFiles accepts without warning exactly when the aggregate
\* decoded size is at most 600 KiB, accepts with a warning exactly when it is
\* above 600 KiB and at most 5 MiB, and rejects exactly when it is above
\* 5 MiB.
C24_SizeThresholds ==
  \A i \in SendRequests :
    \E mediaFiles \in {SendPayload(i).media} :
      (/\ Len(mediaFiles) >= 1
       /\ Len(mediaFiles) <= QUO_MAX_ATTACHMENTS
       /\ \A k \in 1..Len(mediaFiles) : WellFormed(mediaFiles[k]))
      => \E v \in {validateMediaFiles(mediaFiles)},
            size \in {DecodedTotal(mediaFiles)} :
           /\ responses[i].success = v.valid
           /\ (v.valid /\ ~v.warning) = (size <= RECOMMENDED_SIZE)
           /\ (v.valid /\ v.warning) =
                (size > RECOMMENDED_SIZE /\ size <= QUO_MAX_TOTAL_SIZE)
           /\ ~v.valid = (size > QUO_MAX_TOTAL_SIZE)

\* ----------------------------------------------------- claims on the sinks
\* the step appends a record to the log
Appends(log, logAfter) == Len(logAfter) = Len(log) + 1

Last(log) == log[Len(log)]

\* C25 as stated: each of SENDING, RETRYING, SENT and FAILED produces one
\* Audit Sink write and one Notifier call for the attempt it belongs to.
C25_BothSinksEveryTransition ==
  \A i \in 1..Len(audit) :
    \E j \in 1..Len(callbacks) :
      /\ callbacks[j].msg = audit[i].msg
      /\ callbacks[j].attempt = audit[i].attempt
      /\ callbacks[j].status = audit[i].status

\* C25 (amended): the Audit Sink is written once at every state transition
\* of a message (SENDING when an attempt begins; RETRYING, SENT or FAILED
\* when it ends); the Notifier is called once at each of RETRYING, SENT and
\* FAILED, with the attempt and status of the audit record of that
\* transition, and is not called at SENDING.
C25_SinksPerTransition ==
  [][/\ Len(audit') \in {Len(audit), Len(audit) + 1}
     /\ Len(callbacks') \in {Len(callbacks), Len(callbacks) + 1}
     /\ Appends(audit, audit') =>
          IF Last(audit').status = SENDING
            THEN callbacks' = callbacks
            ELSE /\ Last(audit').status \in {RETRYING, SENT, FAILED}
                 /\ callbacks' = Append(callbacks, Last(audit'))
     /\ Appends(callbacks, callbacks') => Appends(audit, audit')
     /\ \A m \in MsgIds :
          /\ attempt'[m] # attempt[m] =>
               /\ Appends(audit, audit')
               /\ Last(audit') = [msg |-> m, attempt |-> attempt'[m],
                                  status |-> SENDING, code |-> NoString]
          /\ (pc[m] = "handle" /\ pc'[m] # "handle") =>
               /\ Appends(audit, audit')
               /\ Last(audit').msg = m
               /\ Last(audit').attempt = attempt[m]
               /\ Last(audit').status # SENDING
    ]_vars

\* a message went through SENDING, RETRYING, SENDING and FAILED: four audit
\* records and two callbacks
C25_Witness ==
  \E m \in MsgIds :
    /\ [i \in 1..Len(RecordsOf(audit, m)) |-> RecordsOf(audit, m)[i].status]
         = <<SENDING, RETRYING, SENDING, FAILED>>
    /\ [i \in 1..Len(RecordsOf(callbacks, m)) |->
          RecordsOf(callbacks, m)[i].status] = <<RETRYING, FAILED>>

\* C26: every audit record and Notifier callback that reports the outcome of
\* attempt n of a message (retrying, sent or failed) is issued only after
\* the sendMessage call of attempt n has ended, and never before attempt n
\* has started.
C26_OutcomeAfterAttempt ==
  [][\A m \in MsgIds :
       /\ (/\ Appends(audit, audit')
           /\ Last(audit').msg = m
           /\ Last(audit').status # SENDING)
          => /\ pc[m] = "handle"
             /\ sends[m] = Last(audit').attempt
             /\ HasRecord(audit, m, SENDING, Last(audit').attempt)
       /\ (/\ Appends(callbacks, callbacks')
           /\ Last(callbacks').msg = m)
          => /\ pc[m] = "handle"
             /\ sends[m] = Last(callbacks').attempt
             /\ HasRecord(audit, m, SENDING, Last(callbacks').attempt)
    ]_vars

\* the outcome of a second attempt has been recorded and reported
C26_Witness ==
  \E m \in MsgIds :
    /\ sends[m] = 2
    /\ pc[m] = "backoff"
    /\ HasRecord(audit, m, RETRYING, 2)
    /\ HasRecord(callbacks, m, RETRYING, 2)

\* ----------------------------------------- claims on the delivery sequence
\* the verification step of the last attempt of m was entered
Verified(m) ==
  /\ driver[m].steps # <<>>
  /\ driver[m].steps[Len(driver[m].steps)] = "verify"

\* the steps of one delivery attempt with n staged files, in order
StepOrder(n) ==
  IF n > 0
    THEN <<"compose", "recipient", "body", "attach", "send", "verify">>
    ELSE <<"compose", "recipient", "body", "send", "verify">>

IsPrefix(a, b) == Len(a) <= Len(b) /\ a = SubSeq(b, 1, Len(a))

\* C27: after the send action and the settle interval, the attempt is
\* classified as failed exactly when an error/alert-class element is present
\* in the view, and the text of that element is the error detail reported
\* for the attempt; with no such element the attempt is classified as sent.
C27_AlertTextIsErrorDetail ==
  \A m \in MsgIds :
    (pc[m] = "handle" /\ Verified(m)) =>
      /\ result[m].success = (driver[m].alert = NoString)
      /\ driver[m].alert # NoString => result[m].error = driver[m].alert

C29_StepsInOrder ==
  \A m \in MsgIds :
    \E run \in {driver[m]} :
      /\ IsPrefix(run.steps, StepOrder(mediaFilePaths[m]))
      /\ run.raisedIn \notin {"none", "verify"} =>
           /\ run.steps[Len(run.steps)] = run.raisedIn
           /\ ~result[m].success
           /\ ~result[m].threw
      /\ run.issued =>
           /\ \E i \in 1..Len(run.steps) :
                /\ run.steps[i] = "send"
                /\ run.raisedIn \notin {run.steps[j] : j \in 1..(i - 1)}
           /\ mediaFilePaths[m] > 0 =>
                run.attach.attached /\ ~run.attach.raised
      /\ (run.steps # <<>> /\ ~run.issued) => ~result[m].success

\* attaching the staged file raised: the attempt ended there, Enter was not
\* pressed
C29_Witness ==
  \E m \in MsgIds :
    /\ mediaFilePaths[m] = 1
    /\ driver[m].steps = <<"compose", "recipient", "body", "attach">>
    /\ driver[m].raisedIn = "attach"
    /\ ~driver[m].issued
    /\ pc[m] = "handle"

\* C30: with staged attachments the mechanisms are tried in the order
\* dedicated control, file input, synthesized drag-and-drop; a mechanism
\* that fails leads to the next one, and the attempt fails at the
\* attachment step only when all three have failed.
C30_AttachFallbackChain ==
  \A m \in MsgIds :
    driver[m].attach # NoAttach =>
      /\ IsPrefix(driver[m].attach.tried, <<"button", "input", "drop">>)
      /\ driver[m].attach.raised =>
           driver[m].attach.tried = <<"button", "input", "drop">>

\* ------------------------------------------------------ claims on the login
\* the first candidate of a list that resolves to a visible element, or
\* NoElement
RECURSIVE FirstVisible(_, _)
FirstVisible(cands, i) ==
  IF i > Len(cands) THEN NoElement
  ELSE IF cands[i] = "visible" THEN [index |-> i, state |-> "visible"]
  ELSE FirstVisible(cands, i + 1)

\* the login steps whose element is required
RequiredSteps == {"email", "password"}

\* C31: in every login step with a list of candidate locators the element
\* acted on is the first candidate, in priority order, resolving to a
\* visible element; with no visible candidate the step counts as not found
\* (fatal for the email and password fields, tolerated for the entry button
\* and the Continue buttons) and no element that is not visible is acted on.
C31_FirstVisibleCandidateWins ==
  \A step \in LoginSteps :
    \E r \in {login.login[step]} :
      r.ran =>
        /\ r.acted = FirstVisible(r.cands, 1)
        /\ r.acted.state # "hidden"
        /\ FirstVisible(r.cands, 1) = NoElement =>
             IF step \in RequiredSteps THEN r.raised ELSE ~r.raised

\* C32: session material is written only after a login that ended on the
\* authenticated view: not when the session was found authenticated, not
\* when the login failed, never for a session that is not authenticated.
C32_SavedOnlyWhenAuthenticated ==
  /\ login.saved =>
       /\ login.needsLogin
       /\ login.outcome = "ok"
       /\ login.view = "inbox"
  /\ login.outcome \in {"none", "unreachable", "loginFailed",
                        "secondFactorTimeout"} => ~login.saved
  /\ (login.outcome = "ok" /\ ~login.needsLogin) => ~login.saved

C33_WitnessInTime ==
  /\ login.login.challenged
  /\ login.login.waited = SecondFactorWindow \div 2
  /\ login.outcome = "ok"
  /\ \E m \in MsgIds : pc[m] = "delay"

\* ------------------------------------------------- claims on the lifecycle
\* C34: once shutdown is triggered, the sequence pause, await drain, close
\* browser eventually completes and the browser is closed, in every queue
\* state at the moment of the trigger, including when messages that have not
\* started are waiting in the queue.
C34_ShutdownCompletes ==
  (sd \in {"draining", "closing"}) ~> (sd \in {"closed", "exited"} /\ ~page)

\* C35: for every configured maxRetries, 0 included, a message dequeued by
\* the worker is attempted at least once and ends with a terminal record and
\* a terminal callback; no message leaves the queue with no attempt, no
\* record and no callback.
C35_DequeuedIsAttempted ==
  \A m \in MsgIds :
    pc[m] = "done" =>
      /\ sends[m] >= 1
      /\ TerminalsOf(audit, m) # <<>>
      /\ TerminalsOf(callbacks, m) # <<>>

\* the staging of the attachments of m failed: its processMessage call is
\* past the staging block and the last attachment was not written
StagingFailed(m) ==
  /\ Len(accepted[m].media) > 0
  /\ pc[m] \in {"loop", "send", "handle", "backoff", "delay"}
  /\ <<m, Len(accepted[m].media)>> \notin disk

\* C36 as stated: a message submitted with attachments is never delivered
\* without them: whenever staging of its attachments fails, no delivery
\* attempt sends the message body alone and the message is reported failed.
C36_NeverWithoutAttachments ==
  \A m \in MsgIds :
    StagingFailed(m) =>
      /\ ~driver[m].issued
      /\ pc[m] = "delay" => Last(audit).status = FAILED

\* C36 (amended): a message submitted with attachments is delivered without
\* them when staging of its attachments fails: processMessage holds no file
\* path, every delivery attempt skips the attachment step and sends the
\* message body alone, and the message is reported sent or failed by the
\* outcome of those attempts.
C36_StagingFailureSendsBodyAlone ==
  \A m \in MsgIds :
    StagingFailed(m) =>
      /\ mediaFilePaths[m] = 0
      /\ driver[m].attach = NoAttach
      /\ IsPrefix(driver[m].steps, StepOrder(0))
      /\ pc[m] = "handle" => (result[m].success => driver[m].issued)
      /\ pc[m] = "delay" =>
           /\ Last(audit).msg = m
           /\ Last(audit).status = IF result[m].success THEN SENT ELSE FAILED
           /\ Last(callbacks) = Last(audit)

\* the write of the second attachment failed and the message body was sent
\* alone and reported as sent
C36_Witness ==
  \E m \in MsgIds :
    /\ Len(accepted[m].media) = 2
    /\ <<m, 1>> \in disk
    /\ <<m, 2>> \notin disk
    /\ pc[m] = "delay"
    /\ driver[m].issued
    /\ driver[m].steps = StepOrder(0)
    /\ Last(audit).status = SENT

\* -------------------------------------------------- claims on sendMessage
\* the name of the error the catch block of sendMessage received in run
ErrorName(run) ==
  IF run.ui.kind = "alert" THEN ErrVerification.name
                           ELSE StepError(run.ui.kind).name

\* C37: on an initialized session sendMessage never raises: every failure
\* inside the delivery sequence (a failing error snapshot included) is
\* returned as a result with success = false, status failed and errorCode
\* equal to the error's name; it raises only when no browser page exists,
\* which is the only way the unexpected-error path of the queue is reached.
C37_FailureIsResult ==
  [][\A m \in MsgIds :
       /\ (pc[m] = "send" /\ pc'[m] = "handle") =>
            /\ result'[m].threw <=> ~page
            /\ page => (result'[m].success <=> driver'[m].ui.kind = "clean")
            /\ (page /\ ~result'[m].success) =>
                 /\ result'[m].status = FAILED
                 /\ result'[m].errorCode = ErrorName(driver'[m])
                 /\ driver'[m].snapshot \in {"taken", "failed"}
       /\ (Len(audit') > Len(audit) /\ Last(audit').msg = m
           /\ Last(audit').code = UNEXPECTED_ERROR) =>
            /\ pc[m] = "handle"
            /\ result[m].threw]_vars

\* a step raised, the error screenshot of the catch block failed too, and the
\* failure came back as a result that the queue recorded as FAILED
C37_Witness ==
  \E m \in MsgIds :
    /\ driver[m].snapshot = "failed"
    /\ driver[m].raisedIn = "body"
    /\ ~result[m].threw
    /\ result[m].errorCode = ErrTimeout.name
    /\ pc[m] = "delay"
    /\ Last(audit).status = FAILED

\* sendMessage raised on a closed session and the queue recorded
\* UNEXPECTED_ERROR
C37_WitnessClosed ==
  \E m \in MsgIds :
    /\ ~page
    /\ pc[m] = "done"
    /\ sends[m] = 1
    /\ Last(audit) = [msg |-> m, attempt |-> 1, status |-> FAILED,
                      code |-> UNEXPECTED_ERROR]

\* C38: the worker waits for each sink call to settle before it moves on.
\* While a sink call is pending no attempt begins, the driver is not called
\* and no job starts; a further attempt of a message begins only when the
\* outcome of the attempt before it is in the audit trail and has been posted
\* to the notifier, and another message starts only when every message
\* started before it has returned with its terminal callback posted.
C38_SinkCallsSettleFirst ==
  [][ /\ unsettled # "none" =>
           /\ attempt' = attempt
           /\ sends' = sends
           /\ started' = started
           /\ pending' = pending
      /\ \A m \in MsgIds :
           (attempt[m] > 0 /\ attempt'[m] > attempt[m]) =>
             /\ unsettled = "none"
             /\ HasRecord(audit, m, RETRYING, attempt[m])
             /\ HasRecord(callbacks, m, RETRYING, attempt[m])
      /\ Len(started') > Len(started) =>
           \A i \in 1..Len(started) :
             /\ pc'[started[i]] = "done"
             /\ unsettled' = "none"
             /\ \E j \in 1..Len(callbacks') :
                  /\ callbacks'[j].msg = started[i]
                  /\ callbacks'[j].status \in {SENT, FAILED}
    ]_vars

\* the notifier never answered the callback of a second attempt while another
\* message waits in a queue that is not paused
C38_Witness ==
  /\ unsettled = "notify"
  /\ ~isPaused
  /\ sd = "none"
  /\ \E m, k \in MsgIds :
       /\ pc[m] = "await"
       /\ attempt[m] = 2
       /\ pc[k] = "queued"
       /\ HasRecord(callbacks, m, FAILED, 2)

\* C39: pause() and clear() called while a message is in retry backoff leave
\* that message as it is, a paused queue starts no message, and the message in
\* backoff goes on to its terminal record, SENT at the attempt that succeeded
\* or FAILED at the attempt that failed for good (the last one the retry
\* ceiling allows when the error is a timeout), unless the process is shut
\* down meanwhile.
C39_BackoffSurvivesPauseAndClear ==
  /\ [][ /\ \A m \in MsgIds :
               ( /\ pc[m] = "backoff"
                 /\ \/ ~isPaused /\ isPaused'
                    \/ \E k \in MsgIds : pc[k] = "queued" /\ pc'[k] = "cleared" )
               => /\ pc'[m] = "backoff"
                  /\ attempt'[m] = attempt[m]
                  /\ timer'[m] = timer[m]
                  /\ pending' = pending
      /\ (isPaused /\ isPaused') => started' = started
    ]_vars
  /\ \A m \in MsgIds :
       (pc[m] = "backoff" /\ sd = "none") ~>
         \/ sd # "none"
         \/ /\ pc[m] = "done"
            /\ \/ HasRecord(audit, m, SENT, attempt[m])
               \/ \E i \in 1..Len(audit) :
                    /\ audit[i].msg = m
                    /\ audit[i].status = FAILED
                    /\ audit[i].attempt = attempt[m]
                    /\ audit[i].code = ErrTimeout.name =>
                         attempt[m] = maxRetries

\* the queue is paused and has been cleared of the other message while a
\* message sleeps before its last attempt
C39_Witness ==
  /\ isPaused
  /\ queue = <<>>
  /\ \E m, k \in MsgIds :
       /\ pc[m] = "backoff"
       /\ attempt[m] = maxRetries - 1
       /\ pc[k] = "cleared"
====
